---- MODULE Spec2Model ----
(***************************************************************************)
(* Transaction submission of the relayer: the EVM submitter                *)
(* (voyager/modules/transaction/ethereum) and the Cosmos submitter         *)
(* (voyager/plugins/transaction/cosmos-sdk).  A submission leases a signer *)
(* from the module's keyring, talks to the chain at its await points and   *)
(* is resolved to an op of the queue or to a JSON-RPC error.               *)
(***************************************************************************)
EXTENDS Integers, Sequences, FiniteSets, Bags, TLC

(* ------------------------------ bounds --------------------------------- *)

\* keys configured in the keyring of the module
NumKeys == 2
\* submissions the queue may run concurrently against one module
NumSubs == 3
\* messages of one submission: 1..MaxBatch
MaxBatch == 2
\* gas prices the provider may report: 0..MaxPrice
MaxPrice == 2
\* block heights of the chain: 0..MaxHeight
MaxHeight == 6
\* seconds the clock of the queue runs: 0..MaxTime
MaxTime == 13

Keys == 1..NumKeys
Subs == 1..NumSubs
NoKey == 0

\* Datagrams are told apart by a number; a submission carries a non-empty
\* list of distinct datagrams.
MsgIds == 1..MaxBatch
Batches == {q \in UNION {[1..n -> MsgIds] : n \in 1..MaxBatch} :
              \A i, j \in DOMAIN q : i # j => q[i] # q[j]}
\* the submissions used where several of them run side by side: a single
\* message and a batch of two
FewBatches == {<<1>>, <<2, 1>>}

Prices == 0..MaxPrice
\* Config.max_gas_price: Option<U256>
NoMax == -1
MaxGasPrices == {NoMax} \cup (0..(MaxPrice - 1))

(* ------------------------------- ops ----------------------------------- *)

noop == [op |-> "Noop"]
defer_relative(secs) == [op |-> "Defer", secs |-> secs]
effect(e) == [op |-> "Effect", effect |-> e]
call(c) == [op |-> "Call", call |-> c]
seq(ops) == [op |-> "Seq", ops |-> ops]
conc(ops) == [op |-> "Conc", ops |-> ops]
data(d) == [op |-> "Data", data |-> d]

\* RpcResult<Op<..>>; a handler that panics resolves to neither
RpcOk(o) == [tag |-> "Ok", op |-> o, code |-> 0]
RpcErr(code) == [tag |-> "Err", op |-> noop, code |-> code]
RpcPanic == [tag |-> "Panic", op |-> noop, code |-> 0]

\* the transient JSON-RPC error code used by both submitters
TRANSIENT_JSONRPC_ERROR_CODE == -1
\* voyager_message::FATAL_JSONRPC_ERROR_CODE (0xBADBEEF)
FATAL_JSONRPC_ERROR_CODE == 195935983

(* --------------------------- closure results --------------------------- *)

\* what keyring.with(closure) hands back: None when no key is free,
\* Some(Ok(())), Some(Err(e)), or the closure's panic resumed
\* a transaction error of the chain: enum CosmosSdkError
NoTxErr == [space |-> "-", name |-> "-"]
NoErr == [kind |-> "-", max |-> 0, price |-> 0, tx |-> NoTxErr, message |-> <<>>]
ResNone == [tag |-> "None", err |-> NoErr]
ResOk == [tag |-> "Ok", err |-> NoErr]
ResErr(e) == [tag |-> "Err", err |-> e]
ResPanic == [tag |-> "Panic", err |-> NoErr]

\* enum TxSubmitError
TxSubmitError(kind) == [kind |-> kind, max |-> 0, price |-> 0, tx |-> NoTxErr, message |-> <<>>]
GasPriceTooHigh(max, price) ==
  [kind |-> "GasPriceTooHigh", max |-> max, price |-> price, tx |-> NoTxErr, message |-> <<>>]

\* enum BroadcastTxCommitError
BroadcastTxCommitError(kind, tx, message) ==
  [kind |-> kind, max |-> 0, price |-> 0, tx |-> tx, message |-> message]

(* ------------------------------- state --------------------------------- *)

VARIABLES
  variant,        \* which submitter this module is: "evm" or "cosmos"
  max_gas_price,  \* Module.max_gas_price (EVM), NoMax for None
  keyring,        \* the keys of Module.keyring that are not leased
  pc,             \* per submission: the await point it is suspended at
  msgs,           \* per submission: the messages it was called with
  held,           \* per submission: the key leased to it, NoKey for none
  io,             \* per submission: the chain requests of this attempt, in order
  price,          \* per submission: the gas price fetched in this attempt
  polls,          \* per submission: the counter i of broadcast_tx_commit
  target,         \* per submission: target_height of broadcast_tx_commit
  reached,        \* per submission: reached_height of broadcast_tx_commit
  height,         \* the latest block height of the chain
  last,           \* the attempt completed by the latest step, if any
  queue,          \* the ops in the queue: a bag
  now,            \* the clock of the queue, in seconds
  blocks,         \* the transactions of the chain's blocks 1..MaxHeight
  root,           \* the op the queue was started with
  ran,            \* the op handled by the latest step of the queue, if any
  value,          \* the input the calls of a library are applied to
  result,         \* the call made by the latest step of a library, if any
  consensus_states,       \* NEAR client: the consensus state stored per height
  client_state,           \* NEAR client: the stored client state
  epoch_block_producers,  \* NEAR client: EPOCH_BLOCK_PRODUCERS_MAP
  checksum_cache,         \* event source: Module.checksum_cache
  lookups,                \* event source: the calls of client_type_of_checksum
  hosts,          \* IBC VM: per node, the host as the finished runs have left it
  runs,           \* IBC VM: per node, the run of the datagram in hand
  fed             \* IBC VM: the datagram in hand and the answers to its actions

\* the state of the submitters
subvars == <<variant, max_gas_price, keyring, pc, msgs, held, io, price, polls, target,
             reached>>
\* the state of the queue and of the chain the event source reads
queuevars == <<queue, now, blocks, root, ran>>
\* the state of the NEAR light client's store
nearvars == <<consensus_states, client_state, epoch_block_producers>>
\* the state of the libraries: conversions and light clients
\* the checksum cache of the event source and the calls that use it
cachevars == <<checksum_cache, lookups>>
\* the hosts of the IBC VM and the runs on them
ibcvars == <<hosts, runs, fed>>
\* the state of the cache and of the IBC VM
restvars == <<cachevars, ibcvars>>
libvars == <<value, result, nearvars, restvars>>
vars == <<subvars, height, last, queuevars, libvars>>

\* what ran is while the latest step handled no op
NoRun == [done |-> FALSE, op |-> noop, ret |-> RpcPanic]

NoPrice == -1

\* the record of a completed attempt
NoSendErr == [path |-> "-", response |-> FALSE, message |-> <<>>]
Attempt(m, calls, p, res, ret, results, logs, send_err, tx_err) ==
  [done |-> TRUE, msgs |-> m, io |-> calls, price |-> p, res |-> res, ret |-> ret,
   results |-> results, logs |-> logs, send_err |-> send_err, tx_err |-> tx_err]
NoAttempt ==
  [done |-> FALSE, msgs |-> <<>>, io |-> <<>>, price |-> NoPrice, res |-> ResNone,
   ret |-> RpcPanic, results |-> <<>>, logs |-> <<>>, send_err |-> NoSendErr,
   tx_err |-> NoTxErr]

\* a request to the chain and whether it was answered without an error; a
\* failed simulation has the message of its gRPC status
Req(name, ok) == [call |-> name, ok |-> ok, message |-> <<>>]
SimulateReq(status) == [call |-> "simulate", ok |-> status = <<>>, message |-> status]
Calls(calls) == [i \in DOMAIN calls |-> calls[i].call]

InFlight(s) == pc[s] # "idle"

(* ------------------------------ keyring -------------------------------- *)

\* ConcurrentKeyring::with, first half: a free key is taken out of the
\* keyring, or there is none
keyring_pop_keeps(free, k) == free
keyring_pop(free, k) == free \ {k}
\* ConcurrentKeyring::with, second half: the key goes back when the closure
\* has completed, by returning or by panicking
keyring_push_forgets(free, k) == free
keyring_push(free, k) == free \cup {k}

(* --------------------------- EVM: send_transaction --------------------- *)

CHAIN_ID == "chain"

\* the closure, were a list of two still wrapped as a single message
rewrap_msg_single_of_two(m) ==
  IF Len(m) > 2
    THEN [tag |-> "Batch", chain_id |-> CHAIN_ID, message |-> m]
    ELSE [tag |-> "Single", chain_id |-> CHAIN_ID, message |-> <<m[Len(m)]>>]
\* the closure rewrap_msg of send_transaction
rewrap_msg(m) ==
  IF Len(m) > 1
    THEN [tag |-> "Batch", chain_id |-> CHAIN_ID, message |-> m]
    ELSE [tag |-> "Single", chain_id |-> CHAIN_ID, message |-> <<m[Len(m)]>>]

\* the match on the closure's result that ends send_transaction
evm_resolve_empty_revert_fails(res, m) ==
  CASE res.tag = "Ok" -> RpcOk(noop)
    [] res.tag = "Err" /\ res.err.kind = "GasPriceTooHigh" ->
         RpcOk(seq(<<defer_relative(6), effect(rewrap_msg(m))>>))
    [] res.tag = "Err" /\ res.err.kind = "OutOfGas" ->
         RpcOk(seq(<<defer_relative(12), effect(rewrap_msg(m))>>))
    [] res.tag = "Err" /\ res.err.kind \notin {"GasPriceTooHigh", "OutOfGas"} ->
         RpcErr(TRANSIENT_JSONRPC_ERROR_CODE)
    [] res.tag = "None" -> RpcOk(effect(rewrap_msg(m)))
    [] res.tag = "Panic" -> RpcPanic
\* the match, were an attempt that ran out of gas retried as soon as one
\* whose gas price was too high
evm_resolve_short_defer(res, m) ==
  CASE res.tag = "Ok" -> RpcOk(noop)
    [] res.tag = "Err" /\ res.err.kind \in {"GasPriceTooHigh", "OutOfGas", "EmptyRevert"} ->
         RpcOk(seq(<<defer_relative(6), effect(rewrap_msg(m))>>))
    [] res.tag = "Err" /\ res.err.kind \notin {"GasPriceTooHigh", "OutOfGas", "EmptyRevert"} ->
         RpcErr(TRANSIENT_JSONRPC_ERROR_CODE)
    [] res.tag = "None" -> RpcOk(effect(rewrap_msg(m)))
    [] res.tag = "Panic" -> RpcPanic
evm_resolve(res, m) ==
  CASE res.tag = "Ok" -> RpcOk(noop)
    [] res.tag = "Err" /\ res.err.kind = "GasPriceTooHigh" ->
         RpcOk(seq(<<defer_relative(6), effect(rewrap_msg(m))>>))
    [] res.tag = "Err" /\ res.err.kind = "OutOfGas" ->
         RpcOk(seq(<<defer_relative(12), effect(rewrap_msg(m))>>))
    [] res.tag = "Err" /\ res.err.kind = "EmptyRevert" ->
         RpcOk(seq(<<defer_relative(12), effect(rewrap_msg(m))>>))
    [] res.tag = "Err" /\ res.err.kind \notin {"GasPriceTooHigh", "OutOfGas", "EmptyRevert"} ->
         RpcErr(TRANSIENT_JSONRPC_ERROR_CODE)
    [] res.tag = "None" -> RpcOk(effect(rewrap_msg(m)))
    [] res.tag = "Panic" -> RpcPanic

\* return data of one call of the multicall: a list of bytes.  "K" stands for
\* the four selector bytes of an error of the IBC handler ABI, "U" for four
\* bytes that are no such selector.
SELECTOR_LEN == 1
KnownSelectors == {<<"K">>}
ReturnData == {<<>>, <<"K">>, <<"U">>}

\* IbcHandlerErrors::decode(return_data).is_ok()
IbcHandlerErrors_decode(return_data) ==
  /\ Len(return_data) >= SELECTOR_LEN
  /\ SubSeq(return_data, 1, SELECTOR_LEN) \in KnownSelectors

\* contracts::multicall::Result
MulticallResult == {[success |-> TRUE, return_data |-> <<>>]}
                     \cup {[success |-> FALSE, return_data |-> d] : d \in ReturnData}
AllResults == [n \in 1..MaxBatch |-> [1..n -> MulticallResult]]
\* every message succeeded, or the first one reverted with no data
FewResults ==
  [n \in 1..MaxBatch |->
     {r \in AllResults[n] : /\ \A i \in 2..n : r[i].success
                            /\ r[1].success \/ r[1].return_data = <<>>}]

LogEntry(idx, msg, failed, well_known) ==
  [idx |-> idx, msg |-> msg, failed |-> failed, well_known |-> well_known]

\* the loop over result.0.zip(msg_names) of send_transaction, from the
\* position idx on (0-based in the logs)
RECURSIVE multicall_loop_any_unknown_fails(_, _, _, _)
multicall_loop_any_unknown_fails(results, names, idx, logs) ==
  IF idx > Len(results) \/ idx > Len(names)
    THEN [res |-> ResOk, logs |-> logs]
    ELSE LET r == results[idx] IN
      IF r.success \/ IbcHandlerErrors_decode(r.return_data)
        THEN multicall_loop_any_unknown_fails(results, names, idx + 1,
                            Append(logs, LogEntry(idx - 1, names[idx], ~r.success, ~r.success)))
        ELSE [res |-> ResErr(TxSubmitError("EmptyRevert")),
              logs |-> Append(logs, LogEntry(idx - 1, names[idx], TRUE, FALSE))]
RECURSIVE multicall_loop(_, _, _, _)
multicall_loop(results, names, idx, logs) ==
  IF idx > Len(results) \/ idx > Len(names)
    THEN [res |-> ResOk, logs |-> logs]
    ELSE LET r == results[idx] IN
      IF r.success
        THEN multicall_loop(results, names, idx + 1,
                            Append(logs, LogEntry(idx - 1, names[idx], FALSE, FALSE)))
      ELSE IF IbcHandlerErrors_decode(r.return_data)
        THEN multicall_loop(results, names, idx + 1,
                            Append(logs, LogEntry(idx - 1, names[idx], TRUE, TRUE)))
      ELSE IF r.return_data = <<>>
        THEN [res |-> ResErr(TxSubmitError("EmptyRevert")),
              logs |-> Append(logs, LogEntry(idx - 1, names[idx], TRUE, FALSE))]
      ELSE multicall_loop(results, names, idx + 1,
                          Append(logs, LogEntry(idx - 1, names[idx], TRUE, FALSE)))

\* error messages of a JSON-RPC error response: a list of words
INSUFFICIENT_FUNDS == <<"insufficient funds for gas * price + value">>
Contains(hay, needle) ==
  \E i \in 1..(Len(hay) + 1) :
    /\ i + Len(needle) - 1 <= Len(hay)
    /\ SubSeq(hay, i, i + Len(needle) - 1) = needle
ErrorMessages == {<<"nonce too low">>, INSUFFICIENT_FUNDS,
                  <<"err:">> \o INSUFFICIENT_FUNDS \o <<"have 0 want 1">>}

\* what call.gas(..).send() can fail with: the ContractError variant the
\* JSON-RPC client error sits in ("provider": ContractError::ProviderError,
\* "middleware": through the signer and the nonce manager, "other": any other
\* error), whether it is an error response, and the response's message
SendErrors ==
  [path : {"provider", "middleware", "other"}, response : BOOLEAN, message : ErrorMessages]
FewSendErrors ==
  {e \in SendErrors : e.response /\ e.path = "provider" /\ e.message = INSUFFICIENT_FUNDS}

\* the guard of the OutOfGas arm of send_transaction
is_out_of_gas_provider_only(e) ==
  /\ e.path = "provider"
  /\ e.response
  /\ Contains(e.message, INSUFFICIENT_FUNDS)
is_out_of_gas(e) ==
  /\ e.path \in {"provider", "middleware"}
  /\ e.response
  /\ Contains(e.message, INSUFFICIENT_FUNDS)

(* ------------------------ Cosmos: do_send_transaction ------------------ *)

TxErr(space, name) == [space |-> space, name |-> name]
\* the errors CosmosSdkError::from_code_and_codespace yields for the code and
\* codespace of a failed transaction
TxErrors ==
  {TxErr("ChannelError", "ErrRedundantTx"), TxErr("ChannelError", "ErrChannelNotFound"),
   TxErr("SdkError", "ErrWrongSequence"), TxErr("SdkError", "ErrOutOfGas"),
   TxErr("CapabilityError", "ErrCapabilityNotOwned"),
   TxErr("CapabilityError", "ErrCapabilityTaken"),
   TxErr("IbcWasmError", "ErrInvalidChecksum"), TxErr("IbcWasmError", "ErrInvalid"),
   TxErr("ClientError", "ErrClientNotFound"), TxErr("ClientError", "ErrInvalidHeader"),
   TxErr("Unknown", "Unknown")}
FewTxErrors ==
  {TxErr("ChannelError", "ErrRedundantTx"), TxErr("SdkError", "ErrWrongSequence"),
   TxErr("ClientError", "ErrClientNotFound")}

PLUGIN_NAME == "voyager-transaction-plugin-cosmos-sdk/chain"

\* the closure rewrap_msg of do_send_transaction
cosmos_rewrap_msg(m) ==
  [plugin |-> PLUGIN_NAME, message |-> [tag |-> "SubmitTransaction", msgs |-> m]]

ACCOUNT_SEQUENCE_MISMATCH == <<"account sequence mismatch">>

\* the match on broadcast_tx_commit's result inside the closure of
\* do_send_transaction; r is ResOk or ResErr(e)
cosmos_closure_no_special_case(r) ==
  IF r.tag = "Err" /\ r.err.kind = "SimulateTx"
       /\ Contains(r.err.message, ACCOUNT_SEQUENCE_MISMATCH)
    THEN ResErr(BroadcastTxCommitError("AccountSequenceMismatch", NoTxErr, r.err.message))
    ELSE r
cosmos_closure(r) ==
  IF r.tag # "Err" THEN r
  ELSE IF r.err.kind = "Tx" /\ r.err.tx = TxErr("ChannelError", "ErrRedundantTx")
    THEN ResOk
  ELSE IF r.err.kind = "Tx" /\ r.err.tx = TxErr("SdkError", "ErrWrongSequence")
    THEN ResErr(BroadcastTxCommitError("AccountSequenceMismatch", NoTxErr, <<>>))
  ELSE IF r.err.kind = "SimulateTx" /\ Contains(r.err.message, ACCOUNT_SEQUENCE_MISMATCH)
    THEN ResErr(BroadcastTxCommitError("AccountSequenceMismatch", NoTxErr, r.err.message))
  ELSE r

\* Result<Op, BroadcastTxCommitError>
DoOk(o) == [tag |-> "Ok", op |-> o, err |-> NoErr]
DoErr(e) == [tag |-> "Err", op |-> noop, err |-> e]
DoPanic == [tag |-> "Panic", op |-> noop, err |-> NoErr]

\* the match on the closure's result that ends do_send_transaction
cosmos_resolve_none_deferred(res, m) ==
  CASE res.tag = "Err" /\ res.err.kind \in {"AccountSequenceMismatch", "OutOfGas",
                                            "SimulateTx", "QueryLatestHeight"} ->
         DoOk(call(cosmos_rewrap_msg(m)))
    [] res.tag = "Err" /\ res.err.kind \notin {"AccountSequenceMismatch", "OutOfGas",
                                               "SimulateTx", "QueryLatestHeight"} ->
         DoErr(res.err)
    [] res.tag = "Ok" -> DoOk(noop)
    [] res.tag = "None" -> DoOk(seq(<<defer_relative(1), call(cosmos_rewrap_msg(m))>>))
    [] res.tag = "Panic" -> DoPanic
cosmos_resolve(res, m) ==
  CASE res.tag = "Err" /\ res.err.kind \in {"AccountSequenceMismatch", "OutOfGas",
                                            "SimulateTx", "QueryLatestHeight"} ->
         DoOk(call(cosmos_rewrap_msg(m)))
    [] res.tag = "Err" /\ res.err.kind \notin {"AccountSequenceMismatch", "OutOfGas",
                                               "SimulateTx", "QueryLatestHeight"} ->
         DoErr(res.err)
    [] res.tag = "Ok" -> DoOk(noop)
    [] res.tag = "None" -> DoOk(call(cosmos_rewrap_msg(m)))
    [] res.tag = "Panic" -> DoPanic

\* the map_err of PluginServer::call: the code of the error object
cosmos_error_code_client_not_found_transient(e) ==
  IF e.kind = "Tx" /\ (e.tx.space = "CapabilityError"
                         \/ e.tx = TxErr("IbcWasmError", "ErrInvalidChecksum"))
    THEN FATAL_JSONRPC_ERROR_CODE
    ELSE TRANSIENT_JSONRPC_ERROR_CODE
cosmos_error_code(e) ==
  IF e.kind = "Tx"
    THEN IF e.tx.space = "CapabilityError" THEN FATAL_JSONRPC_ERROR_CODE
         ELSE IF e.tx = TxErr("IbcWasmError", "ErrInvalidChecksum") THEN FATAL_JSONRPC_ERROR_CODE
         ELSE IF e.tx = TxErr("ClientError", "ErrClientNotFound") THEN FATAL_JSONRPC_ERROR_CODE
         ELSE TRANSIENT_JSONRPC_ERROR_CODE
    ELSE TRANSIENT_JSONRPC_ERROR_CODE

\* PluginServer::call(SubmitTransaction(m)), given the closure's result
cosmos_call(res, m) ==
  LET r == cosmos_resolve(res, m) IN
  CASE r.tag = "Ok" -> RpcOk(r.op)
    [] r.tag = "Err" -> RpcErr(cosmos_error_code(r.err))
    [] r.tag = "Panic" -> RpcPanic

(* --------------- Cosmos event source: PluginServer::call --------------- *)

EVENT_CHAIN_ID == "union-1"
\* PluginMessage::new(self.plugin_name(), ModuleCall::from(m))
PluginMessage(m) == [plugin |-> <<"voyager-event-source-plugin-cosmos-sdk", EVENT_CHAIN_ID>>,
                     message |-> m]

\* unionlabs Height and Height::increment: the next height of the revision
Height(revision, h) == [revision |-> revision, height |-> h]
Height_increment_skipping(h) == Height(h.revision, h.height + 2)
Height_increment(h) == Height(h.revision, h.height + 1)

FetchBlocks(h) == [tag |-> "FetchBlocks", height |-> h]
FetchTransactions(h, page) == [tag |-> "FetchTransactions", height |-> h, page |-> page]
MakeChainEvent(h, tx_hash, event) ==
  [tag |-> "MakeChainEvent", height |-> h, tx_hash |-> tx_hash, event |-> event]
WaitForHeight(chain_id, h, finalized) ==
  [tag |-> "WaitForHeight", chain_id |-> chain_id, height |-> h, finalized |-> finalized]

\* call(FetchBlocks { height })
call_FetchBlocks_conc(h) ==
  conc(<<call(PluginMessage(FetchTransactions(h, 1))),
         conc(<<call(WaitForHeight(EVENT_CHAIN_ID, Height_increment(h), TRUE)),
                call(PluginMessage(FetchBlocks(Height_increment(h))))>>)>>)
call_FetchBlocks(h) ==
  conc(<<call(PluginMessage(FetchTransactions(h, 1))),
         seq(<<call(WaitForHeight(EVENT_CHAIN_ID, Height_increment(h), TRUE)),
               call(PluginMessage(FetchBlocks(Height_increment(h))))>>)>>)

\* the events of the chain.  A raw event has the attributes of its kind; the
\* other fields are not read.  IbcEvent::try_from_tendermint_event is None
\* for an event of spec "Other", which is filtered out.
IbcV1Kinds ==
  {"SubmitEvidence", "CreateClient", "UpdateClient", "ClientMisbehaviour",
   "ConnectionOpenInit", "ConnectionOpenTry", "ConnectionOpenAck", "ConnectionOpenConfirm",
   "ChannelOpenInit", "ChannelOpenTry", "ChannelOpenAck", "ChannelOpenConfirm",
   "SendPacket", "TimeoutPacket", "AcknowledgePacket", "WriteAcknowledgement", "RecvPacket"}
IbcUnionKinds == {"CreateClient", "ConnectionOpenInit"}
RawEvent(spec, kind) ==
  [spec |-> spec, kind |-> kind,
   client_id |-> "07-tendermint-0", counterparty_client_id |-> "08-wasm-3",
   connection_id |-> "connection-0",
   packet_src_channel |-> IF kind \in {"WriteAcknowledgement", "RecvPacket"}
                            THEN "channel-9" ELSE "channel-1",
   packet_dst_channel |-> IF kind \in {"WriteAcknowledgement", "RecvPacket"}
                            THEN "channel-1" ELSE "channel-9",
   packet_sequence |-> 1]
RawEvents ==
  {RawEvent("IbcV1", k) : k \in IbcV1Kinds} \cup {RawEvent("IbcUnion", k) : k \in IbcUnionKinds}
    \cup {RawEvent("Other", "transfer")}

\* tm_client.tx_search("tx.height=h", page, PER_PAGE_LIMIT) over the blocks bs
PER_PAGE_LIMIT == 10
Min(a, b) == IF a < b THEN a ELSE b
tx_search(bs, h, page) ==
  LET all == IF h.height \in DOMAIN bs THEN bs[h.height] ELSE <<>> IN
  [txs |-> SubSeq(all, (page - 1) * PER_PAGE_LIMIT + 1, Min(page * PER_PAGE_LIMIT, Len(all))),
   total_count |-> Len(all)]

\* the flat_map of call(FetchTransactions): the IBC events of the
\* transactions, each with the hash of its transaction
RECURSIVE ibc_events(_)
ibc_events(txs) ==
  IF txs = <<>> THEN <<>>
  ELSE LET txr == Head(txs)
           evs == SelectSeq(txr.events, LAMBDA e : e.spec # "Other")
       IN [i \in DOMAIN evs |-> [event |-> evs[i], tx_hash |-> txr.hash]] \o ibc_events(Tail(txs))

\* call(FetchTransactions { height, page }), given the search's response
call_FetchTransactions_to_the_limit(h, page, response) ==
  LET found == ibc_events(response.txs) IN
  conc([i \in DOMAIN found |->
          call(PluginMessage(MakeChainEvent(h, found[i].tx_hash, found[i].event)))]
       \o (IF page * PER_PAGE_LIMIT <= response.total_count
             THEN <<call(PluginMessage(FetchTransactions(h, page + 1)))>>
             ELSE <<>>))
call_FetchTransactions(h, page, response) ==
  LET found == ibc_events(response.txs) IN
  conc([i \in DOMAIN found |->
          call(PluginMessage(MakeChainEvent(h, found[i].tx_hash, found[i].event)))]
       \o (IF page * PER_PAGE_LIMIT < response.total_count
             THEN <<call(PluginMessage(FetchTransactions(h, page + 1)))>>
             ELSE <<>>))

\* what the voyager client answers: the connection end at a ConnectionPath
\* of this chain, the ClientInfo of a client and the chain a client tracks
Connections ==
  [c \in {"connection-0"} |->
     [client_id |-> "07-tendermint-0",
      counterparty |-> [client_id |-> "08-wasm-3", connection_id |-> "connection-5"]]]
client_info(ibc_spec_id, client_id) == [ibc_spec_id |-> ibc_spec_id, client_id |-> client_id]
client_meta(ibc_spec_id, client_id) == [chain_id |-> <<"chain tracked by", client_id>>]

\* Module::make_packet_metadata
make_packet_metadata(self_connection_id, self_channel_id, other_channel_id) ==
  LET self_connection == Connections[self_connection_id] IN
  [counterparty_chain_id |-> client_meta("IbcV1", self_connection.client_id).chain_id,
   client_info |-> client_info("IbcV1", self_connection.client_id),
   source_channel |->
     [channel_id |-> self_channel_id,
      connection |-> [client_id |-> self_connection.client_id,
                      connection_id |-> self_connection_id]],
   destination_channel |->
     [channel_id |-> other_channel_id,
      connection |-> [client_id |-> self_connection.counterparty.client_id,
                      connection_id |-> self_connection.counterparty.connection_id]]]

\* voyager_message::data::ChainEvent
ChainEvent(chain_id, info, counterparty_chain_id, tx_hash, provable_height, ibc_version_id, event) ==
  [chain_id |-> chain_id, client_info |-> info,
   counterparty_chain_id |-> counterparty_chain_id, tx_hash |-> tx_hash,
   provable_height |-> provable_height, ibc_version_id |-> ibc_version_id, event |-> event]

ClientKinds == {"CreateClient", "UpdateClient"}
ConnectionKinds ==
  {"ConnectionOpenInit", "ConnectionOpenTry", "ConnectionOpenAck", "ConnectionOpenConfirm"}
ChannelKinds == {"ChannelOpenInit", "ChannelOpenTry", "ChannelOpenAck", "ChannelOpenConfirm"}
PacketKinds ==
  {"SendPacket", "TimeoutPacket", "AcknowledgePacket", "WriteAcknowledgement", "RecvPacket"}

\* `let provable_height = height.increment()` of call(MakeChainEvent)
provable_height_of_same(h) == h
provable_height_of(h) == Height_increment(h)

\* call(MakeChainEvent { height, tx_hash, event }) while the voyager client
\* answers every query
call_MakeChainEvent(h, tx_hash, event) ==
  LET provable_height == provable_height_of(h)
      client_event == [kind |-> event.kind, client_id |-> event.client_id]
      connection_event ==
        [kind |-> event.kind, client_id |-> event.client_id,
         connection_id |-> event.connection_id,
         counterparty_client_id |-> event.counterparty_client_id]
      connection == Connections[event.connection_id]
      sent == make_packet_metadata(event.connection_id, event.packet_src_channel,
                                   event.packet_dst_channel)
      received == make_packet_metadata(event.connection_id, event.packet_dst_channel,
                                       event.packet_src_channel)
  IN
  CASE event.spec = "IbcV1" /\ event.kind \in {"SubmitEvidence", "ClientMisbehaviour"} ->
         RpcPanic
    [] event.spec = "IbcV1" /\ event.kind \in ClientKinds \cup ConnectionKinds ->
         RpcOk(data(ChainEvent(EVENT_CHAIN_ID, client_info("IbcV1", event.client_id),
                               client_meta("IbcV1", event.client_id).chain_id,
                               tx_hash, provable_height, "IbcV1",
                               IF event.kind \in ClientKinds
                                 THEN client_event ELSE connection_event)))
    [] event.spec = "IbcV1" /\ event.kind \in ChannelKinds ->
         RpcOk(data(ChainEvent(EVENT_CHAIN_ID, client_info("IbcV1", connection.client_id),
                               client_meta("IbcV1", connection.client_id).chain_id,
                               tx_hash, provable_height, "IbcV1",
                               [kind |-> event.kind, connection |-> connection])))
    [] event.spec = "IbcV1" /\ event.kind \in {"SendPacket", "TimeoutPacket",
                                                "AcknowledgePacket"} ->
         RpcOk(data(ChainEvent(EVENT_CHAIN_ID, sent.client_info, sent.counterparty_chain_id,
                               tx_hash, provable_height, "IbcV1",
                               [kind |-> event.kind,
                                packet |-> [sequence |-> event.packet_sequence,
                                            source_channel |-> sent.source_channel,
                                            destination_channel |-> sent.destination_channel]])))
    [] event.spec = "IbcV1" /\ event.kind \in {"WriteAcknowledgement", "RecvPacket"} ->
         RpcOk(data(ChainEvent(EVENT_CHAIN_ID, received.client_info,
                               received.counterparty_chain_id,
                               tx_hash, provable_height, "IbcV1",
                               [kind |-> event.kind,
                                packet |-> [sequence |-> event.packet_sequence,
                                            source_channel |-> received.destination_channel,
                                            destination_channel |-> received.source_channel]])))
    [] event.spec = "IbcUnion" /\ event.kind = "CreateClient" ->
         RpcOk(data(ChainEvent(EVENT_CHAIN_ID, client_info("IbcUnion", event.client_id),
                               client_meta("IbcUnion", event.client_id).chain_id,
                               tx_hash, provable_height, "IbcV1",
                               [kind |-> "ClientCreated", client_id |-> event.client_id])))
    [] event.spec = "IbcUnion" /\ event.kind = "ConnectionOpenInit" ->
         RpcOk(data(ChainEvent(EVENT_CHAIN_ID, client_info("IbcUnion", event.client_id),
                               client_meta("IbcUnion", event.client_id).chain_id,
                               tx_hash, provable_height, "IbcUnion", connection_event)))

\* ChainEvent::client_id
ChainEvent_client_id(ce) ==
  CASE ce.event.kind \in ClientKinds \cup ConnectionKinds -> ce.event.client_id
    [] ce.event.kind \in ChannelKinds -> ce.event.connection.client_id
    [] ce.event.kind \in PacketKinds -> ce.event.packet.source_channel.connection.client_id

\* ChainEvent::counterparty_client_id: <<>> for None, <<id>> for Some(id)
ChainEvent_counterparty_client_id(ce) ==
  CASE ce.event.kind \in ConnectionKinds -> <<ce.event.counterparty_client_id>>
    [] ce.event.kind \in ChannelKinds -> <<ce.event.connection.counterparty.client_id>>
    [] ce.event.kind \in {"SendPacket", "AcknowledgePacket", "TimeoutPacket"} ->
         <<ce.event.packet.destination_channel.connection.client_id>>
    [] ce.event.kind \in {"RecvPacket", "WriteAcknowledgement"} ->
         <<ce.event.packet.source_channel.connection.client_id>>
    [] OTHER -> <<>>

(* ------------------------------ actions -------------------------------- *)

Resolve(res, m) == IF variant = "evm" THEN evm_resolve(res, m) ELSE cosmos_call(res, m)

\* keyring.with returns: the key goes back, the handler matches on the
\* closure's result and returns
Complete(s, calls, p, res, results, logs, send_err, tx_err) ==
  /\ keyring' = keyring_push(keyring, held[s])
  /\ held' = [held EXCEPT ![s] = NoKey]
  /\ pc' = [pc EXCEPT ![s] = "idle"]
  /\ msgs' = [msgs EXCEPT ![s] = <<>>]
  /\ io' = [io EXCEPT ![s] = <<>>]
  /\ price' = [price EXCEPT ![s] = NoPrice]
  /\ polls' = [polls EXCEPT ![s] = 0]
  /\ target' = [target EXCEPT ![s] = 0]
  /\ reached' = [reached EXCEPT ![s] = 0]
  /\ last' = Attempt(msgs[s], calls, p, res, Resolve(res, msgs[s]),
                     results, logs, send_err, tx_err)
  /\ UNCHANGED <<variant, max_gas_price, height, queuevars, libvars>>

\* the closure panics: with() puts the key back and resumes the panic
Panic(s, calls) == Complete(s, calls, price[s], ResPanic, <<>>, <<>>, NoSendErr, NoTxErr)

\* the closure returns r without a multicall result
Return(s, calls, r) == Complete(s, calls, price[s], r, <<>>, <<>>, NoSendErr, NoTxErr)

\* the submission goes on to its next await point
Proceed(s, next, calls) ==
  /\ pc' = [pc EXCEPT ![s] = next]
  /\ io' = [io EXCEPT ![s] = calls]
  /\ last' = NoAttempt
  /\ UNCHANGED <<variant, max_gas_price, keyring, msgs, held, height, queuevars,
                 libvars>>

\* the handler is called while no key is free: keyring.with is None
with_none(s, m) ==
  /\ pc[s] = "idle"
  /\ keyring = {}
  /\ last' = Attempt(m, <<>>, NoPrice, ResNone, Resolve(ResNone, m),
                     <<>>, <<>>, NoSendErr, NoTxErr)
  /\ UNCHANGED <<variant, max_gas_price, keyring, pc, msgs, held, io, price, polls,
                 target, reached, height, queuevars, libvars>>

\* the handler is called and keyring.with leases a key to the closure
with_some(s, m) ==
  /\ pc[s] = "idle"
  /\ \E k \in keyring :
       /\ keyring' = keyring_pop(keyring, k)
       /\ held' = [held EXCEPT ![s] = k]
  /\ msgs' = [msgs EXCEPT ![s] = m]
  /\ pc' = [pc EXCEPT ![s] = IF variant = "cosmos" THEN "simulate"
                             ELSE IF max_gas_price = NoMax THEN "estimate_gas"
                             ELSE "get_gas_price"]
  /\ last' = NoAttempt
  /\ UNCHANGED <<variant, max_gas_price, io, price, polls, target, reached, height,
                 queuevars, libvars>>

\* the comparison `gas_price > max_gas_price` of send_transaction
gas_price_too_high_or_equal(p, max) == p >= max
gas_price_too_high(p, max) == p > max

\* provider.get_gas_price() returns: p is the price, or NoPrice for a failed
\* request (the expect panics)
evm_get_gas_price(s, PriceSet) ==
  /\ pc[s] = "get_gas_price"
  /\ \E p \in PriceSet :
       IF p = NoPrice
         THEN Panic(s, Append(io[s], Req("get_gas_price", FALSE)))
         ELSE LET calls == Append(io[s], Req("get_gas_price", TRUE)) IN
           IF gas_price_too_high(p, max_gas_price)
             THEN Complete(s, calls, p, ResErr(GasPriceTooHigh(max_gas_price, p)),
                           <<>>, <<>>, NoSendErr, NoTxErr)
             ELSE /\ Proceed(s, "estimate_gas", calls)
                  /\ price' = [price EXCEPT ![s] = p]
                  /\ UNCHANGED <<polls, target, reached>>

\* call.estimate_gas() returns: "ok", "revert" (ContractError::Revert, with
\* whatever revert data) or "error" (any other error: the handler panics)
evm_estimate_gas(s, Outcomes) ==
  /\ pc[s] = "estimate_gas"
  /\ \E o \in Outcomes :
       LET calls == Append(io[s], Req("estimate_gas", o = "ok")) IN
       CASE o = "ok" -> Proceed(s, "send", calls) /\ UNCHANGED <<price, polls, target, reached>>
         [] o = "revert" -> Return(s, calls, ResOk)
         [] o = "error" -> Panic(s, calls)

\* call.gas(..).send() returns: the pending transaction, or an error
evm_send(s, Errors) ==
  /\ pc[s] = "send"
  /\ \E o \in Errors :
       LET calls == Append(io[s], Req("send", o = NoSendErr)) IN
       IF o = NoSendErr
         THEN Proceed(s, "receipt", calls) /\ UNCHANGED <<price, polls, target, reached>>
         ELSE IF is_out_of_gas(o)
           THEN Complete(s, calls, price[s], ResErr(TxSubmitError("OutOfGas")),
                         <<>>, <<>>, o, NoTxErr)
           ELSE Complete(s, calls, price[s], ResPanic, <<>>, <<>>, o, NoTxErr)

\* the pending transaction resolves: "provider" (an error), "none" (no
\* receipt), "nolog" (a receipt whose last log is no multicall result: the
\* expects panic) or "receipt", a receipt with the multicall's results
evm_receipt(s, Outcomes, Results) ==
  /\ pc[s] = "receipt"
  /\ \E o \in Outcomes :
       LET calls == Append(io[s], Req("receipt", o \in {"receipt", "nolog"})) IN
       CASE o = "provider" -> Return(s, calls, ResErr(TxSubmitError("Provider")))
         [] o = "none" -> Return(s, calls, ResErr(TxSubmitError("NoTxReceipt")))
         [] o = "nolog" -> Panic(s, calls)
         [] o = "receipt" ->
              \E r \in Results[Len(msgs[s])] :
                LET out == multicall_loop(r, msgs[s], 1, <<>>) IN
                Complete(s, calls, price[s], out.res, r, out.logs, NoSendErr, NoTxErr)

\* the bound of the inclusion loop of broadcast_tx_commit: `Err(err) if i > 5`
MAX_FAILED_POLLS == 5

\* what account_info and simulate_tx come back with: the gas info ("ok"),
\* a gRPC status with its message ("err"), or an unwrap on the gRPC
\* connection or on the account failed ("panic")
SimulateResult(tag, message) == [tag |-> tag, message |-> message]
SimulateStatuses ==
  {<<"out of gas in location: ReadFlat">>,
   <<"rpc error: code = Unknown desc =", "account sequence mismatch",
     "expected 5, got 4: incorrect account sequence">>}
SimulateOutcomes ==
  {SimulateResult("ok", <<>>), SimulateResult("panic", <<>>)}
    \cup {SimulateResult("err", m) : m \in SimulateStatuses}

\* account_info and simulate_tx return.  When the simulation failed, the
\* status is dropped, the gas is set to u64::MAX and broadcast_tx_commit goes
\* on to sign and send the transaction all the same.
cosmos_simulate(s, Outcomes) ==
  /\ pc[s] = "simulate"
  /\ \E o \in Outcomes :
       IF o.tag = "panic"
         THEN Panic(s, Append(io[s], Req("simulate", FALSE)))
         ELSE /\ Proceed(s, "tx_lookup", Append(io[s], SimulateReq(o.message)))
              /\ UNCHANGED <<price, polls, target, reached>>

\* a tx query that found the transaction: o is NoTxErr for a transaction
\* included with code 0, else the error its code and codespace stand for
TxFound(o) ==
  [call |-> "tx", ok |-> TRUE,
   message |-> IF o.space = "-" THEN <<>> ELSE <<o.space, o.name>>]

\* tm_client.tx(tx_hash) before the broadcast: the query fails (the chain
\* does not know the transaction), or the transaction is already included,
\* with code 0 or with a code > 0; `if let Ok(tx)` does not look at the code
cosmos_tx_lookup(s, Outcomes) ==
  /\ pc[s] = "tx_lookup"
  /\ \E o \in Outcomes :
       IF o = TxErr("rpc", "failed")
         THEN /\ Proceed(s, "broadcast", Append(io[s], Req("tx", FALSE)))
              /\ UNCHANGED <<price, polls, target, reached>>
         ELSE Return(s, Append(io[s], TxFound(o)), cosmos_closure(ResOk))

\* broadcast_tx_sync returns: NoTxErr for check_tx code 0, an error of the
\* chain for a code > 0, or the request failed (the unwrap panics)
cosmos_broadcast(s, Outcomes) ==
  /\ pc[s] = "broadcast"
  /\ \E o \in Outcomes :
       IF o = TxErr("rpc", "failed")
         THEN Panic(s, Append(io[s], Req("broadcast_tx_sync", FALSE)))
         ELSE LET calls == Append(io[s], Req("broadcast_tx_sync", TRUE)) IN
           IF o = NoTxErr
             THEN Proceed(s, "latest_height", calls) /\ UNCHANGED <<price, polls, target, reached>>
             ELSE Complete(s, calls, price[s],
                           cosmos_closure(ResErr(BroadcastTxCommitError("Tx", o, <<>>))),
                           <<>>, <<>>, NoSendErr, o)

\* tm_client.block(None) returns, with the latest block of the chain or an
\* error: for the first target height, and then inside the inner loop, which
\* sleeps and asks again while the chain is below the target height (of these
\* repeated requests io keeps the one that ended the wait)
cosmos_block(s, Outcomes) ==
  /\ pc[s] \in {"latest_height", "wait_height"}
  /\ \E ok \in Outcomes :
       IF ~ok
         THEN Return(s, Append(io[s], Req("block", FALSE)),
                     cosmos_closure(ResErr(BroadcastTxCommitError("QueryLatestHeight",
                                                                  NoTxErr, <<>>))))
       ELSE IF pc[s] = "latest_height"
         THEN /\ Proceed(s, "wait_height", Append(io[s], Req("block", TRUE)))
              /\ target' = [target EXCEPT ![s] = height]
              /\ UNCHANGED <<price, polls, reached>>
       ELSE IF height >= target[s]
         THEN /\ Proceed(s, "inclusion", Append(io[s], Req("block", TRUE)))
              /\ reached' = [reached EXCEPT ![s] = height]
              /\ UNCHANGED <<price, polls, target>>
         ELSE /\ Proceed(s, "wait_height", io[s])
              /\ UNCHANGED <<price, polls, target, reached>>

\* the target height after a failed inclusion query:
\* `target_height = reached_height.add(&1)`
next_target_same(reached_height) == reached_height
next_target(reached_height) == reached_height + 1

\* tm_client.tx(tx_hash) of the inclusion loop: the transaction is found with
\* code 0 (NoTxErr), found with a code > 0 (an error of the chain), or the
\* query fails
cosmos_inclusion(s, Outcomes) ==
  /\ pc[s] = "inclusion"
  /\ \E o \in Outcomes :
       IF o = TxErr("rpc", "failed")
         THEN LET calls == Append(io[s], Req("tx", FALSE)) IN
           IF polls[s] > MAX_FAILED_POLLS
             THEN Return(s, calls,
                         cosmos_closure(ResErr(BroadcastTxCommitError("Inclusion",
                                                                      NoTxErr, <<>>))))
             ELSE /\ Proceed(s, "wait_height", calls)
                  /\ polls' = [polls EXCEPT ![s] = polls[s] + 1]
                  /\ target' = [target EXCEPT ![s] = next_target(reached[s])]
                  /\ UNCHANGED <<price, reached>>
         ELSE LET calls == Append(io[s], Req("tx", TRUE)) IN
           IF o = NoTxErr
             THEN Return(s, calls, cosmos_closure(ResOk))
             ELSE Complete(s, calls, price[s],
                           cosmos_closure(ResErr(BroadcastTxCommitError("Tx", o, <<>>))),
                           <<>>, <<>>, NoSendErr, o)

\* the chain commits its next block
commit_block ==
  /\ height < MaxHeight
  /\ height' = height + 1
  /\ last' = NoAttempt
  /\ ran' = NoRun
  /\ UNCHANGED <<subvars, queue, now, blocks, root, libvars>>

RpcFailed == TxErr("rpc", "failed")

(* ------------------- the queue and the event source -------------------- *)

\* the op an item of the queue runs next: the head of a Seq, else the item
Head_of(item) == IF item.op = "Seq" THEN item.ops[1] ELSE item

\* the item once its head resolved to the op o: a Seq goes on with its next
\* op only when its head resolved to Noop
Resolved(item, o) ==
  IF item.op # "Seq" THEN o
  ELSE IF o # noop THEN seq(<<o>> \o Tail(item.ops))
  ELSE IF Len(item.ops) > 2 THEN seq(Tail(item.ops))
  ELSE IF Len(item.ops) = 2 THEN item.ops[2]
  ELSE noop

SeqToBag(ops) ==
  [o \in {ops[i] : i \in DOMAIN ops} \ {noop} |-> Cardinality({i \in DOMAIN ops : ops[i] = o})]

\* the handler of the item's head returned ret: an op takes the head's
\* place (data leaves the queue for its consumer); after an error or a panic
\* the item stays queued
Run(item, ret) ==
  /\ queue' = IF ret.tag # "Ok" THEN queue
              ELSE (queue (-) SetToBag({item}))
                     (+) SeqToBag(SelectSeq(<<Resolved(item, ret.op)>>,
                                            LAMBDA o : o.op # "Data"))
  /\ ran' = [done |-> TRUE, op |-> Head_of(item), ret |-> ret]
  /\ last' = NoAttempt
  /\ UNCHANGED <<subvars, height, now, blocks, root, libvars>>

IsCall(o, tag) == o.op = "Call" /\ "plugin" \in DOMAIN o.call /\ o.call.message.tag = tag

\* a Conc at the top of the queue: its ops are queued side by side
queue_conc ==
  \E item \in BagToSet(queue) :
    /\ item.op = "Conc"
    /\ queue' = (queue (-) SetToBag({item})) (+) SeqToBag(item.ops)
    /\ ran' = NoRun
    /\ last' = NoAttempt
    /\ UNCHANGED <<subvars, height, now, blocks, root, libvars>>

\* WaitForHeight resolves once the chain has finalized the height
queue_wait_for_height ==
  \E item \in BagToSet(queue) :
    LET o == Head_of(item) IN
    /\ o.op = "Call"
    /\ "plugin" \notin DOMAIN o.call
    /\ o.call.tag = "WaitForHeight"
    /\ height >= o.call.height.height
    /\ Run(item, RpcOk(noop))

\* Defer: a relative defer becomes a defer until now + secs, which resolves
\* once that time has come
queue_defer ==
  \E item \in BagToSet(queue) :
    LET o == Head_of(item) IN
    /\ o.op \in {"Defer", "DeferUntil"}
    /\ IF o.op = "Defer"
         THEN Run(item, RpcOk([op |-> "DeferUntil", until |-> now + o.secs]))
         ELSE now >= o.until /\ Run(item, RpcOk(noop))

\* an Effect is carried out: the messages go to the transaction module
queue_effect ==
  \E item \in BagToSet(queue) :
    /\ Head_of(item).op = "Effect"
    /\ Run(item, RpcOk(noop))

\* time passes while a defer is pending
tick ==
  /\ now < MaxTime
  /\ \E item \in BagToSet(queue) : Head_of(item).op = "DeferUntil"
  /\ now' = now + 1
  /\ ran' = NoRun
  /\ last' = NoAttempt
  /\ UNCHANGED <<subvars, height, queue, blocks, root, libvars>>

ev_fetch_blocks ==
  \E item \in BagToSet(queue) :
    /\ IsCall(Head_of(item), "FetchBlocks")
    /\ Run(item, RpcOk(call_FetchBlocks(Head_of(item).call.message.height)))

\* tx_search answers with the transactions of the blocks committed so far,
\* or fails
ev_fetch_transactions(Outcomes) ==
  \E item \in BagToSet(queue), ok \in Outcomes :
    LET m == Head_of(item).call.message IN
    /\ IsCall(Head_of(item), "FetchTransactions")
    /\ Run(item, IF ok
                   THEN RpcOk(call_FetchTransactions(
                                m.height, m.page,
                                tx_search(SubSeq(blocks, 1, height), m.height, m.page)))
                   ELSE RpcErr(TRANSIENT_JSONRPC_ERROR_CODE))

\* the voyager client answers every query of MakeChainEvent, or one fails
ev_make_chain_event(Outcomes) ==
  \E item \in BagToSet(queue), ok \in Outcomes :
    LET m == Head_of(item).call.message IN
    /\ IsCall(Head_of(item), "MakeChainEvent")
    /\ Run(item, IF ok THEN call_MakeChainEvent(m.height, m.tx_hash, m.event)
                       ELSE RpcErr(TRANSIENT_JSONRPC_ERROR_CODE))

(* ------------- unionlabs: ConnectionEnd, Tx and SignedHeader ------------- *)

\* the results of a library call; a panic ends the call without a value
Ok(v) == [tag |-> "Ok", v |-> v]
Err(e) == [tag |-> "Err", e |-> e]
Panicked == [tag |-> "Panic"]
\* Option: <<>> is None and <<x>> is Some(x)
Some(x) == <<x>>
None == <<>>

\* the largest numeric suffix of the identifiers converted
MaxId == 10

\* a string is the sequence of its characters
Digits == <<"0", "1", "2", "3", "4", "5", "6", "7", "8", "9">>
is_numeric(c) == \E i \in 1..Len(Digits) : Digits[i] = c
DigitValue(c) == (CHOOSE i \in 1..Len(Digits) : Digits[i] = c) - 1

RECURSIVE to_string(_)
\* Display of an unsigned integer
to_string(n) ==
  IF n < 10 THEN <<Digits[n + 1]>>
  ELSE to_string(n \div 10) \o <<Digits[(n % 10) + 1]>>

RECURSIVE DigitsValue(_)
DigitsValue(s) ==
  IF s = <<>> THEN 0
  ELSE DigitsValue(SubSeq(s, 1, Len(s) - 1)) * 10 + DigitValue(s[Len(s)])

\* str::parse::<u32>(): the value of a non-empty string of digits (the
\* strings parsed here stay far below 2^32)
parse_u32(s) ==
  IF s = <<>> \/ \E i \in 1..Len(s) : ~is_numeric(s[i])
    THEN Err(<<"ParseIntError">>)
    ELSE Ok(DigitsValue(s))

\* str::strip_suffix(char::is_numeric): the pattern matches one character,
\* so what is returned is the string without its last character, when that
\* character is numeric
strip_suffix(s) ==
  IF s # <<>> /\ is_numeric(s[Len(s)]) THEN Some(SubSeq(s, 1, Len(s) - 1)) ELSE None

\* id.strip_suffix(char::is_numeric).unwrap().parse().unwrap()
strip_and_parse(id) ==
  IF strip_suffix(id) = None THEN Panicked
  ELSE IF parse_u32(strip_suffix(id)[1]).tag = "Err" THEN Panicked
  ELSE parse_u32(strip_suffix(id)[1])

\* the identifiers: a prefix followed by a number
CLIENT_PREFIXES ==
  {<<"0", "8", "-", "w", "a", "s", "m", "-">>,
   <<"c", "o", "m", "e", "t", "b", "l", "s", "-">>}
CONNECTION_PREFIX == <<"c", "o", "n", "n", "e", "c", "t", "i", "o", "n", "-">>
IdNumbers == {0, 2, MaxId}
ClientIds == {p \o to_string(n) : p \in CLIENT_PREFIXES, n \in IdNumbers}
ConnectionIds == {CONNECTION_PREFIX \o to_string(n) : n \in IdNumbers}

\* connection::State and its discriminants
States == <<"UninitializedUnspecified", "Init", "Tryopen", "Open">>
State_as_i32(state) == (CHOOSE i \in 1..Len(States) : States[i] = state) - 1
State_try_from(i) ==
  IF i \in 0..(Len(States) - 1) THEN Ok(States[i + 1]) ELSE Err(<<"UnknownEnumVariant">>)

\* From<State> for SolIBCConnectionState, as the uint8 of the ABI
SolIBCConnectionState(state) ==
  CASE state = "UninitializedUnspecified" -> 0
    [] state = "Init" -> 1
    [] state = "Tryopen" -> 2
    [] state = "Open" -> 3

\* SolValue::abi_encode of the static struct: its four words in order
abi_encode(c) == <<c.state, c.clientId, c.counterpartyClientId, c.counterpartyConnectionId>>

ConnectionEnd(client_id, versions, state, counterparty, delay_period) ==
  [type |-> "ConnectionEnd", client_id |-> client_id, versions |-> versions,
   state |-> state, counterparty |-> counterparty, delay_period |-> delay_period]
Counterparty(client_id, connection_id) ==
  [client_id |-> client_id, connection_id |-> connection_id, prefix |-> "ibc"]

\* Encode<EthAbi> for ConnectionEnd
ConnectionEnd_encode(self) ==
  LET clientId == strip_and_parse(self.client_id)
      counterpartyClientId == strip_and_parse(self.counterparty.client_id)
      counterpartyConnectionId ==
        strip_and_parse(IF self.counterparty.connection_id = None
                          THEN CONNECTION_PREFIX \o <<"0">>
                          ELSE self.counterparty.connection_id[1])
  IN IF Panicked \in {clientId, counterpartyClientId, counterpartyConnectionId}
       THEN Panicked
       ELSE Ok(abi_encode([state |-> SolIBCConnectionState(self.state),
                           clientId |-> clientId.v,
                           counterpartyClientId |-> counterpartyClientId.v,
                           counterpartyConnectionId |-> counterpartyConnectionId.v]))

\* required!(field): the value of a field of a protobuf message that is set
required(field, name) ==
  IF field = None THEN Err(<<"MissingField", name>>) ELSE Ok(field[1])

\* FromStr for the validated identifiers: the string itself if it is one
Id_parse(s) == IF s # <<>> THEN Ok(s) ELSE Err(<<"invalid id">>)

\* connection::Version and its protobuf message: the features by name
ORDER_NAMES == [Ordered |-> "ORDER_ORDERED", Unordered |-> "ORDER_UNORDERED"]
Version_into(x) ==
  [identifier |-> x.identifier,
   features |-> [i \in 1..Len(x.features) |-> ORDER_NAMES[x.features[i]]]]
Version_try_from(raw) ==
  IF \A i \in 1..Len(raw.features) : \E o \in DOMAIN ORDER_NAMES : ORDER_NAMES[o] = raw.features[i]
    THEN Ok([identifier |-> raw.identifier,
             features |-> [i \in 1..Len(raw.features) |->
                             CHOOSE o \in DOMAIN ORDER_NAMES : ORDER_NAMES[o] = raw.features[i]]])
    ELSE Err(<<"UnknownEnumVariant">>)

\* connection::Counterparty and its protobuf message: no connection id is
\* the empty string
Counterparty_into(x) ==
  [client_id |-> x.client_id,
   connection_id |-> IF x.connection_id = None THEN <<>> ELSE x.connection_id[1],
   prefix |-> Some([key_prefix |-> x.prefix])]
Counterparty_try_from(raw) ==
  IF Id_parse(raw.client_id).tag = "Err" THEN Err(<<"ClientId">>)
  ELSE IF raw.prefix = None THEN Err(<<"MissingField", "prefix">>)
  ELSE Ok([client_id |-> raw.client_id,
           connection_id |-> IF raw.connection_id = <<>> THEN None
                             ELSE Some(raw.connection_id),
           prefix |-> raw.prefix[1].key_prefix])

\* From<ConnectionEnd> for protos::ibc::core::connection::v1::ConnectionEnd
\* without its counterparty
ConnectionEnd_into_no_counterparty(val) ==
  [proto |-> "ConnectionEnd",
   client_id |-> val.client_id,
   versions |-> [i \in 1..Len(val.versions) |-> Version_into(val.versions[i])],
   state |-> State_as_i32(val.state),
   counterparty |-> None,
   delay_period |-> val.delay_period]
\* From<ConnectionEnd> for protos::ibc::core::connection::v1::ConnectionEnd
ConnectionEnd_into(val) ==
  [proto |-> "ConnectionEnd",
   client_id |-> val.client_id,
   versions |-> [i \in 1..Len(val.versions) |-> Version_into(val.versions[i])],
   state |-> State_as_i32(val.state),
   counterparty |-> Some(Counterparty_into(val.counterparty)),
   delay_period |-> val.delay_period]

\* TryFrom<protos::ibc::core::connection::v1::ConnectionEnd> for ConnectionEnd
ConnectionEnd_try_from(val) ==
  IF Id_parse(val.client_id).tag = "Err" THEN Err(<<"ClientId">>)
  ELSE IF \E i \in 1..Len(val.versions) : Version_try_from(val.versions[i]).tag = "Err"
    THEN Err(<<"Version">>)
  ELSE IF State_try_from(val.state).tag = "Err" THEN Err(<<"State">>)
  ELSE IF required(val.counterparty, "counterparty").tag = "Err"
    THEN required(val.counterparty, "counterparty")
  ELSE IF Counterparty_try_from(val.counterparty[1]).tag = "Err" THEN Err(<<"Counterparty">>)
  ELSE Ok(ConnectionEnd(Id_parse(val.client_id).v,
                        [i \in 1..Len(val.versions) |-> Version_try_from(val.versions[i]).v],
                        State_try_from(val.state).v,
                        Counterparty_try_from(val.counterparty[1]).v,
                        val.delay_period))

\* TxBody, AuthInfo, Header and Commit: a value of the domain type and the
\* protobuf message it is converted to and from
Part(kind, id) == [kind |-> kind, id |-> id]
Part_into(x) == [proto |-> x.kind, fields |-> x.id]
Part_try_from(raw, kind) ==
  IF raw.proto = kind /\ raw.fields > 0 THEN Ok(Part(raw.proto, raw.fields))
  ELSE Err(<<"invalid">>)

CosmosTx(body, auth_info, signatures) ==
  [type |-> "Tx", body |-> body, auth_info |-> auth_info, signatures |-> signatures]

\* From<Tx> for protos::cosmos::tx::v1beta1::Tx
Tx_into(v) ==
  [proto |-> "Tx",
   body |-> Some(Part_into(v.body)),
   auth_info |-> Some(Part_into(v.auth_info)),
   signatures |-> v.signatures]

\* TryFrom<protos::cosmos::tx::v1beta1::Tx> for Tx
Tx_try_from(v) ==
  IF required(v.body, "body").tag = "Err" THEN required(v.body, "body")
  ELSE IF Part_try_from(v.body[1], "TxBody").tag = "Err" THEN Err(<<"Bocy">>)
  ELSE IF required(v.auth_info, "auth_info").tag = "Err" THEN required(v.auth_info, "auth_info")
  ELSE IF Part_try_from(v.auth_info[1], "AuthInfo").tag = "Err" THEN Err(<<"AuthInfo">>)
  ELSE Ok(CosmosTx(Part_try_from(v.body[1], "TxBody").v,
                   Part_try_from(v.auth_info[1], "AuthInfo").v,
                   v.signatures))

SignedHeader(header, commit) ==
  [type |-> "SignedHeader", header |-> header, commit |-> commit]

\* From<SignedHeader> for protos::cometbft::types::v1::SignedHeader and for
\* protos::tendermint::types::SignedHeader
SignedHeader_into(v, package) ==
  [proto |-> package,
   header |-> Some(Part_into(v.header)),
   commit |-> Some(Part_into(v.commit))]

\* TryFrom<protos::cometbft::types::v1::SignedHeader> and
\* TryFrom<protos::tendermint::types::SignedHeader> for SignedHeader
SignedHeader_try_from(v) ==
  IF required(v.header, "header").tag = "Err" THEN required(v.header, "header")
  ELSE IF Part_try_from(v.header[1], "Header").tag = "Err" THEN Err(<<"Header">>)
  ELSE IF required(v.commit, "commit").tag = "Err" THEN required(v.commit, "commit")
  ELSE IF Part_try_from(v.commit[1], "Commit").tag = "Err" THEN Err(<<"Commit">>)
  ELSE Ok(SignedHeader(Part_try_from(v.header[1], "Header").v,
                       Part_try_from(v.commit[1], "Commit").v))

\* the protobuf messages a value converts into
Protos(x) ==
  CASE x.type = "ConnectionEnd" -> {ConnectionEnd_into(x)}
    [] x.type = "Tx" -> {Tx_into(x)}
    [] x.type = "SignedHeader" ->
         {SignedHeader_into(x, "cometbft.types.v1"), SignedHeader_into(x, "tendermint.types")}

\* the conversion of a protobuf message back
try_from(raw) ==
  CASE raw.proto = "ConnectionEnd" -> ConnectionEnd_try_from(raw)
    [] raw.proto = "Tx" -> Tx_try_from(raw)
    [] OTHER -> SignedHeader_try_from(raw)

\* a message that arrives without one of its message fields
Truncated(raw) ==
  CASE raw.proto = "ConnectionEnd" -> {[raw EXCEPT !.counterparty = None]}
    [] raw.proto = "Tx" -> {[raw EXCEPT !.body = None], [raw EXCEPT !.auth_info = None]}
    [] OTHER -> {[raw EXCEPT !.header = None], [raw EXCEPT !.commit = None]}


(* ------------------------- library: conversions ------------------------- *)

\* what value and result are while no conversion is applied
NoValue == [type |-> "none"]
NoResult == [fn |-> "none"]

\* the values converted: connection ends of every state, with and without a
\* counterparty connection id, transactions and signed headers
ConnectionEnds ==
  {ConnectionEnd(c, v, States[i], Counterparty(cc, conn), d) :
     c \in ClientIds,
     v \in {<<>>, <<[identifier |-> <<"1">>, features |-> <<"Ordered", "Unordered">>]>>},
     i \in 1..Len(States),
     cc \in {<<"0", "8", "-", "w", "a", "s", "m", "-">> \o to_string(MaxId)},
     conn \in {None} \cup {Some(x) : x \in ConnectionIds},
     d \in {0, 1}}
Txs ==
  {CosmosTx(Part("TxBody", b), Part("AuthInfo", a), sigs) :
     b \in 1..2, a \in 1..2, sigs \in {<<>>, <<<<1, 2>>>>}}
SignedHeaders == {SignedHeader(Part("Header", h), Part("Commit", c)) : h \in 1..2, c \in 1..2}
Values == ConnectionEnds \cup Txs \cup SignedHeaders

\* ConnectionEnd::encode::<EthAbi>() is called
encode_eth_abi ==
  /\ value.type = "ConnectionEnd"
  /\ result' = [fn |-> "encode", arg |-> value, ret |-> ConnectionEnd_encode(value)]
  /\ UNCHANGED <<subvars, height, last, queuevars, value, nearvars, restvars>>

\* the value is converted into its protobuf message
into_proto ==
  /\ value.type # "none"
  /\ \E raw \in Protos(value) : result' = [fn |-> "into", arg |-> value, ret |-> raw]
  /\ UNCHANGED <<subvars, height, last, queuevars, value, nearvars, restvars>>

\* the message is converted back, as it is or as it arrives truncated
try_from_proto(Truncate) ==
  /\ result.fn = "into"
  /\ \E t \in Truncate :
       \E raw \in IF t THEN Truncated(result.ret) ELSE {result.ret} :
         result' = [fn |-> "try_from", arg |-> raw, ret |-> try_from(raw)]
  /\ UNCHANGED <<subvars, height, last, queuevars, value, nearvars, restvars>>

(* ------------------------------ QueryHeight ----------------------------- *)

\* the heights a query names: revisions 0..MaxQueryRevision, heights
\* 0..MaxQueryHeight
MaxQueryRevision == 2
MaxQueryHeight == 20

\* QueryHeight: Latest, Finalized, Specific(Height)
QueryHeight_Latest == [tag |-> "Latest"]
QueryHeight_Finalized == [tag |-> "Finalized"]
QueryHeight_Specific(h) == [tag |-> "Specific", height |-> h]
QueryHeights ==
  {QueryHeight_Latest, QueryHeight_Finalized}
    \cup {QueryHeight_Specific(Height(r, h)) : r \in 0..MaxQueryRevision,
                                               h \in 0..MaxQueryHeight}

\* Display for Height: the revision and the height, joined by a dash
Height_fmt(h) == to_string(h.revision) \o <<"-">> \o to_string(h.height)
\* FromStr for Height: the numbers before and after the first dash
Height_from_str(s) ==
  IF ~\E i \in 1..Len(s) : s[i] = "-" THEN Err(<<"HeightFromStrError", "Invalid">>)
  ELSE LET dash == CHOOSE i \in 1..Len(s) : s[i] = "-" /\ \A j \in 1..(i - 1) : s[j] # "-"
           revision == parse_u32(SubSeq(s, 1, dash - 1))
           h == parse_u32(SubSeq(s, dash + 1, Len(s)))
       IN IF revision.tag = "Err" \/ h.tag = "Err"
            THEN Err(<<"HeightFromStrError", "ParseIntError">>)
            ELSE Ok(Height(revision.v, h.v))

\* Display for QueryHeight
QueryHeight_fmt(self) ==
  CASE self.tag = "Latest" -> <<"l", "a", "t", "e", "s", "t">>
    [] self.tag = "Finalized" -> <<"f", "i", "n", "a", "l", "i", "z", "e", "d">>
    [] self.tag = "Specific" -> Height_fmt(self.height)

\* FromStr for QueryHeight: "latest", or else a height
QueryHeight_from_str(s) ==
  IF s = <<"l", "a", "t", "e", "s", "t">> THEN Ok(QueryHeight_Latest)
  ELSE IF Height_from_str(s).tag = "Err" THEN Height_from_str(s)
  ELSE Ok(QueryHeight_Specific(Height_from_str(s).v))

\* q.to_string() is called
query_height_to_string ==
  /\ value.type = "QueryHeight"
  /\ result' = [fn |-> "to_string", arg |-> value.q, ret |-> QueryHeight_fmt(value.q)]
  /\ UNCHANGED <<subvars, height, last, queuevars, value, nearvars, restvars>>

\* the string is parsed back
query_height_from_str ==
  /\ result.fn = "to_string"
  /\ result' = [fn |-> "from_str", arg |-> result.ret,
                ret |-> QueryHeight_from_str(result.ret)]
  /\ UNCHANGED <<subvars, height, last, queuevars, value, nearvars, restvars>>

(* --------------------------- NEAR light client -------------------------- *)

\* the largest height of a header the client is updated with
MaxNearHeight == 2

\* the state roots of the chunk that holds the IBC account
NearRoots == {"root-a", "root-b"}
IBC_ACCOUNT_ID == "ibc-union.node0"

\* fn height(height: u64) -> Height
near_height(h) == Height(0, h)

\* read_consensus_state(deps, &height): the store holds consensus states
\* under heights of revision 0 only
read_consensus_state(store, h) ==
  IF h.revision = 0 /\ h.height \in DOMAIN store THEN store[h.height] ELSE None

\* the key paths of a MerklePath: their last element names the IBC path
KeyPaths ==
  {<<>>,
   <<"ibc", "connections/connection-2">>,
   <<"ibc", "clients/08-wasm-5/clientState">>,
   <<"ibc", "clients/08-wasm-5/consensusStates/0-1">>,
   <<"ibc", "not-a-path">>}

\* path.parse::<Path<ClientId, Height>>()
Path_parse(p) ==
  CASE p = "connections/connection-2" -> Ok("Connection")
    [] p = "clients/08-wasm-5/clientState" -> Ok("ClientState")
    [] p = "clients/08-wasm-5/consensusStates/0-1" -> Ok("ClientConsensusState")
    [] OTHER -> Err(<<"UnknownIbcPath">>)

\* fn key_from_path(path: &str) -> Vec<u8>
key_from_path(p) == <<"commitments", p>>

\* the bytes of a value: a counterparty state wrapped in Any, or other bytes
Bytes(any, payload) == [any |-> any, payload |-> payload]
StorageStates ==
  {[tag |-> "Empty"]} \cup
  {[tag |-> "Occupied", value |-> Bytes(a, "state")] : a \in BOOLEAN}

\* what is committed for a value stored under a path: client and consensus
\* states are committed without their Any wrapper
committed_value(kind, v) ==
  IF kind \in {"ClientState", "ClientConsensusState"}
    THEN (IF v.any THEN Ok(Bytes(FALSE, v.payload)) ELSE Err(<<"ForeignStateDecode">>))
    ELSE Ok(v)

\* a state proof that parses shows that the account holds a value (or none)
\* under a key, in the state of a root; other bytes do not parse
RawStateProof(parses, root_, account_id, key, v) ==
  [parses |-> parses, root |-> root_, account_id |-> account_id, key |-> key, value |-> v]
Proofs ==
  {RawStateProof(FALSE, "-", "-", <<>>, None)} \cup
  {RawStateProof(TRUE, r, IBC_ACCOUNT_ID, key_from_path("connections/connection-2"), v) :
     r \in NearRoots, v \in {None, Some(Bytes(FALSE, "state"))}} \cup
  {RawStateProof(TRUE, r, IBC_ACCOUNT_ID, key_from_path("clients/08-wasm-5/clientState"),
                 Some(Bytes(FALSE, "state"))) : r \in NearRoots}

\* the arguments of a call of verify_membership
MembershipArgs ==
  {[type |-> "verify_membership", height |-> Height(rev, n), proof |-> proof,
    key_path |-> key_path, value |-> v] :
     rev \in 0..1, n \in 0..MaxNearHeight, proof \in Proofs, key_path \in KeyPaths,
     v \in StorageStates}

\* near_verifier::verify_state(proof, root, account_id, key, value)
verify_state(proof, root_, account_id, key, v) ==
  IF proof.root = root_ /\ proof.account_id = account_id /\ proof.key = key
     /\ proof.value = v
    THEN Ok(<<>>) ELSE Err(<<"Verifier">>)

\* the height a proof at `height` is verified at, were it the height itself
proof_height_same(h) == h
\* height.revision_height += 1
proof_height(h) == Height(h.revision, h.height + 1)

\* NearLightClient::verify_membership
verify_membership(store, cs, h, proof, key_path, v) ==
  LET consensus_state == read_consensus_state(store, proof_height(h))
      last_path == key_path[Len(key_path)]
      path == Path_parse(last_path)
      committed == committed_value(path.v, v.value)
  IN IF ~proof.parses THEN Panicked
     ELSE IF consensus_state = None
       THEN Err(<<"ConsensusStateNotFound", proof_height(h).height>>)
     ELSE IF key_path = <<>> THEN Err(<<"EmptyPath">>)
     ELSE IF v.tag = "Empty"
       THEN verify_state(proof, consensus_state[1].chunk_prev_state_root,
                         cs.ibc_account_id, key_from_path(last_path), None)
     ELSE IF path.tag = "Err" THEN path
     ELSE IF committed.tag = "Err" THEN committed
     ELSE verify_state(proof, consensus_state[1].chunk_prev_state_root,
                       cs.ibc_account_id, key_from_path(last_path), Some(committed.v))

\* the headers the client is updated with
NearHeader(h, root_, next_bps) ==
  [new_state |-> [inner_lite |-> [height |-> h, timestamp_nanosec |-> h, next_epoch_id |-> 1],
                  next_bps |-> next_bps],
   prev_state_root |-> root_]
NearHeaders ==
  {NearHeader(h, r, bps) : h \in 1..MaxNearHeight, r \in NearRoots,
                           bps \in {None, Some("bps")}}

\* the store after instantiate: the client state and the consensus state of
\* its latest height
InitNear(Starts, Roots) ==
  \E h0 \in Starts, r \in Roots :
    /\ consensus_states =
         [h \in 0..MaxNearHeight |->
            IF h = h0
              THEN Some([state |-> [height |-> h0, timestamp_nanosec |-> h0,
                                    next_epoch_id |-> 1],
                         chunk_prev_state_root |-> r, timestamp |-> h0])
              ELSE None]
    /\ client_state = [latest_height |-> h0, wasm_latest_height |-> near_height(h0),
                       frozen_height |-> 0, ibc_account_id |-> IBC_ACCOUNT_ID]
    /\ epoch_block_producers = <<>>

\* update_state that sets the latest height to the height of every header
raise_latest_height_always(stored, update_height) ==
  [stored EXCEPT !.latest_height = update_height,
                 !.wasm_latest_height.height = update_height]
\* update_state: the client state is raised, and saved, only by a header above
\* its latest height; data.latest_height and the wrapper's
\* latest_height.revision_height are set together
raise_latest_height(stored, update_height) ==
  IF update_height > stored.latest_height
    THEN [stored EXCEPT !.latest_height = update_height,
                        !.wasm_latest_height.height = update_height]
    ELSE stored

\* NearLightClient::update_state
near_update_state ==
  \E header \in NearHeaders :
    LET update_height == header.new_state.inner_lite.height
        new_consensus_state ==
          [state |-> header.new_state.inner_lite,
           chunk_prev_state_root |-> header.prev_state_root,
           timestamp |-> header.new_state.inner_lite.timestamp_nanosec]
    IN /\ consensus_states' =
            [consensus_states EXCEPT ![near_height(update_height).height] =
                                       Some(new_consensus_state)]
       /\ client_state' = raise_latest_height(client_state, update_height)
       /\ epoch_block_producers' =
            IF header.new_state.next_bps = None THEN epoch_block_producers
            ELSE (header.new_state.inner_lite.next_epoch_id :> header.new_state.next_bps[1])
                   @@ epoch_block_producers
       /\ result' = [fn |-> "update_state", arg |-> update_height,
                     ret |-> Ok(<<near_height(update_height)>>)]
       /\ UNCHANGED <<subvars, height, last, queuevars, value, restvars>>

\* NearLightClient::verify_membership is called
near_verify_membership ==
  /\ value.type = "verify_membership"
  /\ result' = [fn |-> "verify_membership", arg |-> value,
                ret |-> verify_membership(consensus_states, client_state, value.height,
                                          value.proof, value.key_path, value.value)]
  /\ UNCHANGED <<subvars, height, last, queuevars, value, nearvars, restvars>>

(* ------------------ event source: client_type_of_checksum --------------- *)

\* the calls of client_type_of_checksum that run side by side
NumLookups == 2
Lookups == 1..NumLookups
Checksums == {"checksum-1", "checksum-2"}

\* the wasm code stored under a checksum: what names its client type
WasmCodes == {[client_type |-> t] : t \in {None, Some("Cometbls"), Some("Tendermint"),
                                         Some("?")}}

\* parse_wasm_client_type(bz)
parse_wasm_client_type(bz) ==
  CASE bz.client_type = None -> Ok(None)
    [] bz.client_type \in {Some("Cometbls"), Some("Tendermint")} -> Ok(bz.client_type)
    [] OTHER -> Err(<<"unknown client type">>)

\* DashMap::get with the entry of some key, whatever the key asked for
checksum_cache_get_any(cache, checksum) ==
  IF \E c \in DOMAIN cache : cache[c] # None
    THEN cache[CHOOSE c \in DOMAIN cache : cache[c] # None]
    ELSE None
\* self.checksum_cache.get(&checksum)
checksum_cache_get(cache, checksum) == cache[checksum]

\* the state of a call: the await point, the checksum and the chain requests
Lookup(at, checksum, requests) == [pc |-> at, checksum |-> checksum, requests |-> requests]
IdleLookup == Lookup("idle", "-", <<>>)

InitCache ==
  /\ checksum_cache = [c \in Checksums |-> None]
  /\ lookups = [p \in Lookups |-> IdleLookup]

\* client_type_of_checksum is called: a hit returns, a miss connects
lookup_call(p) ==
  \E checksum \in Checksums :
    /\ lookups[p].pc = "idle"
    /\ IF checksum_cache_get(checksum_cache, checksum) # None
         THEN /\ result' = [fn |-> "client_type_of_checksum",
                            arg |-> [checksum |-> checksum, hit |-> TRUE, requests |-> <<>>],
                            ret |-> Ok(checksum_cache_get(checksum_cache, checksum))]
              /\ UNCHANGED lookups
         ELSE /\ lookups' = [lookups EXCEPT ![p] = Lookup("connect", checksum, <<>>)]
              /\ result' = NoResult
    /\ UNCHANGED <<subvars, height, last, queuevars, value, nearvars, checksum_cache, ibcvars>>

\* QueryClient::connect answers
lookup_connect(p, Outcomes) ==
  \E ok \in Outcomes :
    /\ lookups[p].pc = "connect"
    /\ IF ok
         THEN /\ lookups' = [lookups EXCEPT ![p] = Lookup("code", lookups[p].checksum, <<>>)]
              /\ result' = NoResult
         ELSE /\ result' = [fn |-> "client_type_of_checksum",
                            arg |-> [checksum |-> lookups[p].checksum, hit |-> FALSE,
                                     requests |-> <<>>],
                            ret |-> Err(<<"error connecting to grpc server">>)]
              /\ lookups' = [lookups EXCEPT ![p] = IdleLookup]
    /\ UNCHANGED <<subvars, height, last, queuevars, value, nearvars, checksum_cache, ibcvars>>

\* the code query answers: the code is parsed and a client type is cached
lookup_code(p, Outcomes) ==
  \E ok \in Outcomes :
    LET checksum == lookups[p].checksum
        parsed == parse_wasm_client_type(value.code[checksum])
    IN /\ lookups[p].pc = "code"
       /\ result' = [fn |-> "client_type_of_checksum",
                     arg |-> [checksum |-> checksum, hit |-> FALSE, requests |-> <<"code">>],
                     ret |-> IF ~ok THEN Err(<<"error querying wasm code">>)
                             ELSE IF parsed.tag = "Ok" THEN parsed ELSE Ok(None)]
       /\ lookups' = [lookups EXCEPT ![p] = IdleLookup]
       /\ checksum_cache' =
            IF ok /\ parsed.tag = "Ok" /\ parsed.v # None
              THEN [checksum_cache EXCEPT ![checksum] = parsed.v]
              ELSE checksum_cache
       /\ UNCHANGED <<subvars, height, last, queuevars, value, nearvars, ibcvars>>

(* --------------------------- plugins: run_pass -------------------------- *)

\* ops handed to one pass: 0..MaxOps
MaxOps == 3

\* a raw datagram: its type url and what tells two datagrams apart
RawDatagram(type_url, id) == [type_url |-> type_url, id |-> id]
RawDatagrams ==
  {RawDatagram("/ibc.core.channel.v1.MsgRecvPacket", 1),
   RawDatagram("/ibc.core.client.v1.MsgUpdateClient", 2),
   RawDatagram("/unknown", 3)}

\* IbcMessage::from_raw_datagram: the message of a datagram whose type url
\* is known
from_raw_datagram(d) ==
  IF d.type_url = "/unknown"
    THEN Err(<<"unknown type url", d.type_url>>)
    ELSE Ok(<<"IbcMessage", d.type_url, d.id>>)

\* Iterator::collect::<Result<_, _>>: every value, or the first error
RECURSIVE collect(_)
collect(rs) ==
  IF rs = <<>> THEN Ok(<<>>)
  ELSE IF Head(rs).tag # "Ok" THEN Head(rs)
  ELSE LET rest == collect(Tail(rs))
       IN IF rest.tag # "Ok" THEN rest ELSE Ok(<<Head(rs).v>> \o rest.v)

\* Iterator::enumerate: indices count from 0
enumerate(s) == [i \in 1..Len(s) |-> <<i - 1, s[i]>>]

IdentifiedIbcDatagram(chain_id, message) ==
  [tag |-> "IdentifiedIbcDatagram", chain_id |-> chain_id, message |-> message]
IdentifiedIbcDatagramBatch(chain_id, message) ==
  [tag |-> "IdentifiedIbcDatagramBatch", chain_id |-> chain_id, message |-> message]

PassResult(optimize_further, ready) ==
  [optimize_further |-> optimize_further, ready |-> ready]

\* the closure of the transaction plugin's run_pass, applied to (idx, msg)
tx_pass_op(idx, msg) ==
  IF msg.op # "Data" \/ msg.data.chain_id # CHAIN_ID THEN Panicked
  ELSE LET converted ==
             IF msg.data.tag = "IdentifiedIbcDatagram"
               THEN collect(<<from_raw_datagram(msg.data.message)>>)
               ELSE collect([i \in DOMAIN msg.data.message |->
                               from_raw_datagram(msg.data.message[i])])
       IN IF converted.tag # "Ok" THEN converted
          ELSE Ok(<<<<idx>>, call(cosmos_rewrap_msg(converted.v))>>)

\* a pass that leaves out the ops it cannot convert
tx_run_pass_skipping(ops) ==
  LET each == [i \in DOMAIN ops |-> tx_pass_op(enumerate(ops)[i][1], ops[i])]
      kept == SelectSeq(each, LAMBDA r : r.tag = "Ok")
  IN Ok(PassResult(<<>>, [k \in DOMAIN kept |-> kept[k].v]))
\* run_pass of the Cosmos transaction plugin
tx_run_pass(ops) ==
  LET each == [i \in DOMAIN ops |-> tx_pass_op(enumerate(ops)[i][1], enumerate(ops)[i][2])]
      ready == collect(each)
  IN IF ready.tag # "Ok" THEN ready ELSE Ok(PassResult(<<>>, ready.v))

\* Call::FetchBlocks of the queue: a chain and the height to start from
Call_FetchBlocks(chain_id, start_height) ==
  [tag |-> "FetchBlocks", chain_id |-> chain_id, start_height |-> start_height]

\* the first closure of the event source's run_pass
ev_pass_op(op) ==
  IF op.op = "Call" /\ op.call.tag = "FetchBlocks" /\ op.call.chain_id = EVENT_CHAIN_ID
    THEN call(PluginMessage(FetchBlocks(op.call.start_height)))
    ELSE op

\* run_pass of the Cosmos event source
ev_run_pass(ops) ==
  LET mapped == [i \in DOMAIN ops |-> ev_pass_op(ops[i])]
  IN Ok(PassResult(<<>>, [i \in DOMAIN ops |->
                            <<<<enumerate(mapped)[i][1]>>, enumerate(mapped)[i][2]>>]))

\* the ops a pass may be handed: what the interest filter of the plugin
\* selects, and ops it does not select
TxPassOps ==
  {data(IdentifiedIbcDatagram(CHAIN_ID, d)) : d \in RawDatagrams}
    \cup {data(IdentifiedIbcDatagramBatch(CHAIN_ID, <<RawDatagram("/ibc.core.channel.v1.MsgRecvPacket", 1),
                                                     RawDatagram("/ibc.core.client.v1.MsgUpdateClient", 2)>>)),
          data(IdentifiedIbcDatagram("other-1", RawDatagram("/ibc.core.channel.v1.MsgRecvPacket", 1))),
          noop}
EvPassOps ==
  {call(Call_FetchBlocks(EVENT_CHAIN_ID, Height(1, 1))),
   call(Call_FetchBlocks(EVENT_CHAIN_ID, Height(1, 2))),
   call(Call_FetchBlocks("other-1", Height(1, 1))),
   noop}
OpLists(Ops) == UNION {[1..n -> Ops] : n \in 0..MaxOps}
Passes ==
  {[type |-> "pass", plugin |-> "transaction", ops |-> ops] : ops \in OpLists(TxPassOps)}
    \cup {[type |-> "pass", plugin |-> "event-source", ops |-> ops] : ops \in OpLists(EvPassOps)}

\* PluginServer::run_pass of the transaction plugin is called
tx_run_pass_call ==
  /\ value.type = "pass"
  /\ value.plugin = "transaction"
  /\ result' = [fn |-> "run_pass", arg |-> value, ret |-> tx_run_pass(value.ops)]
  /\ UNCHANGED <<subvars, height, last, queuevars, value, nearvars, restvars>>

\* PluginServer::run_pass of the event source is called
ev_run_pass_call ==
  /\ value.type = "pass"
  /\ value.plugin = "event-source"
  /\ result' = [fn |-> "run_pass", arg |-> value, ret |-> ev_run_pass(value.ops)]
  /\ UNCHANGED <<subvars, height, last, queuevars, value, nearvars, restvars>>

\* a pass of the queue over the ops the event source's interest filter
\* selects, Call::FetchBlocks: each (indices, op) of `ready` replaces the ops
\* at its indices
queue_pass ==
  \E item \in BagToSet(queue) :
    LET res == ev_run_pass(<<item>>) IN
    /\ item.op = "Call"
    /\ "plugin" \notin DOMAIN item.call
    /\ item.call.tag = "FetchBlocks"
    /\ queue' = (queue (-) SetToBag({item}))
                  (+) SeqToBag([i \in DOMAIN res.v.ready |-> res.v.ready[i][2]])
    /\ ran' = NoRun
    /\ last' = NoAttempt
    /\ UNCHANGED <<subvars, height, now, blocks, root, libvars>>

(* ------------------------------- IBC VM --------------------------------- *)

\* connection identifiers a host allocates: connection-0 ..
MaxConnections == 1
\* packet sequences of the channel: 1..MaxSequence
MaxSequence == 2
\* the nodes of the host chain that execute the same datagrams
VmHosts == {1, 2}

\* the keys of the host's store: a name and a number
ConnectionPath(n) == <<"connections", n>>
ChannelEndPath == <<"channelEnds", 0>>
CommitmentPath(sequence) == <<"commitments", sequence>>
ReceiptPath(sequence) == <<"receipts", sequence>>
AcknowledgementPath(sequence) == <<"acks", sequence>>
NextSequenceSendPath == <<"nextSequenceSend", 0>>
NextSequenceRecvPath == <<"nextSequenceRecv", 0>>
NextSequenceAckPath == <<"nextSequenceAck", 0>>
NextConnectionSequencePath == <<"nextConnectionSequence", 0>>
ClientStatePath == <<"clients", 0>>
VmKeys ==
  {ConnectionPath(n) : n \in 0..MaxConnections}
    \cup {ChannelEndPath, NextSequenceSendPath, NextSequenceRecvPath, NextSequenceAckPath,
          NextConnectionSequencePath, ClientStatePath}
    \cup UNION {{CommitmentPath(s), ReceiptPath(s), AcknowledgementPath(s)} :
                  s \in 1..(MaxSequence + 1)}

\* IbcHost: the store, the height and time of the block being executed; the
\* clock of the node is no part of it
IbcHost_read(host, key) == host.kv[key]
IbcHost_commit(host, key, v) == [host EXCEPT !.kv[key] = Some(v)]
\* IbcHost::delete that leaves the entry in place
IbcHost_delete_nothing(host, key) == host
IbcHost_delete(host, key) == [host EXCEPT !.kv[key] = None]
IbcHost_current_height(host) == host.height
\* the time of the node in place of the time of the block
IbcHost_current_timestamp_local(host) == host.local_time
IbcHost_current_timestamp(host) == host.timestamp
IbcHost_sha256(bz) == <<"sha256", bz>>
\* IbcHost::next_connection_identifier that hands out the same number again
IbcHost_next_connection_identifier_again(host) ==
  [id |-> IbcHost_read(host, NextConnectionSequencePath)[1], host |-> host]
\* IbcHost::next_connection_identifier: the number and the host after it
IbcHost_next_connection_identifier(host) ==
  LET n == IbcHost_read(host, NextConnectionSequencePath)[1]
  IN [id |-> n, host |-> IbcHost_commit(host, NextConnectionSequencePath, n + 1)]

\* Either<(Self, IbcAction), (Vec<IbcEvent>, IbcVmResponse)>, and an error;
\* host is the host as the step leaves it
Left(host, state, action) == [tag |-> "Left", host |-> host, state |-> state, action |-> action]
Right(host, events, response) ==
  [tag |-> "Right", host |-> host, events |-> events, response |-> response]
VmErr(host, e) == [tag |-> "Err", host |-> host, e |-> e]

\* IbcVmResponse
IbcVmResponse_SendPacket(sequence) == [tag |-> "SendPacket", sequence |-> sequence]
IbcVmResponse_Empty == [tag |-> "Empty", sequence |-> 0]

\* IbcAction::Query and IbcAction::Write
IbcAction_Query(client_id, queries) ==
  [tag |-> "Query", client_id |-> client_id, items |-> queries]
IbcAction_Write(ibc_msgs) == [tag |-> "Write", client_id |-> 0, items |-> ibc_msgs]

\* the one response of a round, if it is of the kind asked for
OneResponse(resp, kind) == Len(resp) = 1 /\ resp[1].tag = kind

DEFAULT_IBC_VERSION == <<[identifier |-> <<"1">>, features |-> <<"Unordered">>]>>

VmConnectionId(n) == CONNECTION_PREFIX \o to_string(n)

\* the four steps of the connection handshake; s is the running sub-state
ConnectionOpenInit_process(s, host, resp) ==
  IF s.at = "Init" /\ resp = <<>>
    THEN LET next == IbcHost_next_connection_identifier(host)
             end == ConnectionEnd(s.client_id, DEFAULT_IBC_VERSION, "Init",
                                  Counterparty(s.counterparty_client_id, None), 0)
         IN Right(IbcHost_commit(next.host, ConnectionPath(next.id), end),
                  <<<<"ConnectionOpenInit", VmConnectionId(next.id)>>>>, IbcVmResponse_Empty)
    ELSE VmErr(host, <<"UnexpectedAction">>)

ConnectionOpenTry_process(s, host, resp) ==
  CASE s.at = "Init" /\ resp = <<>> ->
         LET supported == SelectSeq(s.counterparty_versions,
                                    LAMBDA v : \E i \in DOMAIN DEFAULT_IBC_VERSION :
                                                 DEFAULT_IBC_VERSION[i] = v)
         IN IF supported = <<>> THEN VmErr(host, <<"NoSupportedVersionFound">>)
            ELSE Left(host, [s EXCEPT !.at = "ConnectionStateVerified",
                                      !.counterparty_versions = supported],
                      IbcAction_Query(s.client_id,
                        <<[tag |-> "VerifyMembership",
                           path |-> <<"connections", s.counterparty_connection_id>>,
                           value |-> "Init"]>>))
    [] s.at = "ConnectionStateVerified" /\ OneResponse(resp, "VerifyMembership") ->
         IF ~resp[1].valid THEN VmErr(host, <<"MembershipVerificationFailure">>)
         ELSE LET next == IbcHost_next_connection_identifier(host)
                  end == ConnectionEnd(s.client_id, s.counterparty_versions, "Tryopen",
                           Counterparty(s.counterparty_client_id,
                                        Some(s.counterparty_connection_id)), 0)
              IN Right(IbcHost_commit(next.host, ConnectionPath(next.id), end),
                       <<<<"ConnectionOpenTry", VmConnectionId(next.id)>>>>,
                       IbcVmResponse_Empty)
    [] OTHER -> VmErr(host, <<"UnexpectedAction">>)

ConnectionOpenAck_process(s, host, resp) ==
  LET stored == IbcHost_read(host, ConnectionPath(s.connection_id)) IN
  CASE s.at = "Init" /\ resp = <<>> ->
         IF stored = None
           THEN VmErr(host, <<"ConnectionNotFound", VmConnectionId(s.connection_id)>>)
         ELSE IF stored[1].state # "Init"
           THEN VmErr(host, <<"IncorrectConnectionState", stored[1].state, "Init">>)
         ELSE IF s.version.identifier # DEFAULT_IBC_VERSION[1].identifier
           THEN VmErr(host, <<"VersionIdentifiedMismatch", s.version.identifier>>)
         ELSE IF s.version.features = <<>> THEN VmErr(host, <<"EmptyVersionFeatures">>)
         ELSE IF \E i \in DOMAIN s.version.features : s.version.features[i] # "Unordered"
           THEN VmErr(host, <<"UnsupportedFeatureInVersion", "Ordered">>)
         ELSE Left(host, [s EXCEPT !.at = "ConnectionStateVerified"],
                   IbcAction_Query(stored[1].client_id,
                     <<[tag |-> "VerifyMembership",
                        path |-> <<"connections", s.counterparty_connection_id>>,
                        value |-> "Tryopen"]>>))
    [] s.at = "ConnectionStateVerified" /\ OneResponse(resp, "VerifyMembership") ->
         IF ~resp[1].valid THEN VmErr(host, <<"MembershipVerificationFailure">>)
         ELSE LET end == [stored[1] EXCEPT
                            !.state = "Open",
                            !.versions = <<s.version>>,
                            !.counterparty.connection_id = Some(s.counterparty_connection_id)]
              IN Right(IbcHost_commit(host, ConnectionPath(s.connection_id), end),
                       <<<<"ConnectionOpenAck", VmConnectionId(s.connection_id)>>>>,
                       IbcVmResponse_Empty)
    [] OTHER -> VmErr(host, <<"UnexpectedAction">>)

ConnectionOpenConfirm_process(s, host, resp) ==
  LET stored == IbcHost_read(host, ConnectionPath(s.connection_id)) IN
  CASE s.at = "Init" /\ resp = <<>> ->
         IF stored = None
           THEN VmErr(host, <<"ConnectionNotFound", VmConnectionId(s.connection_id)>>)
         ELSE IF stored[1].state # "Tryopen"
           THEN VmErr(host, <<"IncorrectConnectionState", stored[1].state, "Tryopen">>)
         ELSE Left(host, [s EXCEPT !.at = "ConnectionStateVerified"],
                   IbcAction_Query(stored[1].client_id,
                     <<[tag |-> "VerifyMembership",
                        path |-> <<"connections", stored[1].counterparty.connection_id[1]>>,
                        value |-> "Open"]>>))
    [] s.at = "ConnectionStateVerified" /\ OneResponse(resp, "VerifyMembership") ->
         IF ~resp[1].valid THEN VmErr(host, <<"MembershipVerificationFailure">>)
         ELSE Right(IbcHost_commit(host, ConnectionPath(s.connection_id),
                                   [stored[1] EXCEPT !.state = "Open"]),
                    <<<<"ConnectionOpenConfirm", VmConnectionId(s.connection_id)>>>>,
                    IbcVmResponse_Empty)
    [] OTHER -> VmErr(host, <<"UnexpectedAction">>)

\* the channel of the host: open, to channel-7 of the counterparty
COUNTERPARTY_CHANNEL == "channel-7"
ChannelEnd(state, ordering) ==
  [state |-> state, ordering |-> ordering,
   counterparty |-> [port_id |-> "transfer", channel_id |-> COUNTERPARTY_CHANNEL]]

\* a packet of the channel; a timeout of 0 is no timeout
Packet(sequence, source_channel, timeout_height, timeout_timestamp) ==
  [sequence |-> sequence, source_port |-> "transfer", source_channel |-> source_channel,
   timeout_height |-> timeout_height, timeout_timestamp |-> timeout_timestamp]

\* the commitment of a packet: the hash of its timeouts and data
packet_commitment(packet) ==
  IbcHost_sha256(<<packet.timeout_timestamp, packet.timeout_height>>)

\* SendPacket: the sequence is the channel's next_sequence_send
SendPacket_process(s, host, resp) ==
  LET channel == IbcHost_read(host, ChannelEndPath)
      sequence == IbcHost_read(host, NextSequenceSendPath)[1]
  IN
  CASE s.at = "Init" /\ resp = <<>> ->
         IF channel = None THEN VmErr(host, <<"ChannelNotFound", "channel-0">>)
         ELSE IF channel[1].state # "Open"
           THEN VmErr(host, <<"IncorrectChannelState", channel[1].state, "Open">>)
         ELSE IF s.packet.timeout_height = 0 /\ s.packet.timeout_timestamp = 0
           THEN VmErr(host, <<"ZeroTimeout">>)
         ELSE Left(host, [s EXCEPT !.at = "CounterpartyHeightFetched"],
                   IbcAction_Query(0, <<[tag |-> "LatestHeight"]>>))
    [] s.at = "CounterpartyHeightFetched" /\ OneResponse(resp, "LatestHeight") ->
         IF s.packet.timeout_height # 0 /\ resp[1].height >= s.packet.timeout_height
           THEN VmErr(host, <<"TimedOutPacket">>)
         ELSE LET packet == [s.packet EXCEPT !.sequence = sequence]
                  bumped == IbcHost_commit(host, NextSequenceSendPath, sequence + 1)
              IN Right(IbcHost_commit(bumped, CommitmentPath(sequence),
                                      packet_commitment(packet)),
                       <<<<"SendPacket", sequence>>>>, IbcVmResponse_SendPacket(sequence))
    [] OTHER -> VmErr(host, <<"UnexpectedAction">>)

\* the packet is past its timeout on the host
timed_out(host, packet) ==
  \/ packet.timeout_height # 0 /\ IbcHost_current_height(host) >= packet.timeout_height
  \/ packet.timeout_timestamp # 0
       /\ IbcHost_current_timestamp(host) >= packet.timeout_timestamp

\* an ordered channel takes a later packet as well
sequence_in_order_or_later(sequence, next_sequence_recv) == sequence >= next_sequence_recv
\* an ordered channel takes the packet of its next_sequence_recv
sequence_in_order(sequence, next_sequence_recv) == sequence = next_sequence_recv

\* a packet received before, announced again
RecvPacket_duplicate_announced(host, packet) ==
  Right(host, <<<<"RecvPacket", packet.sequence>>>>, IbcVmResponse_Empty)
\* a packet received before: success, no event, nothing written
RecvPacket_duplicate(host, packet) == Right(host, <<>>, IbcVmResponse_Empty)

RecvPacket_process(s, host, resp) ==
  LET channel == IbcHost_read(host, ChannelEndPath)
      packet == s.packet
      next_sequence_recv == IbcHost_read(host, NextSequenceRecvPath)[1]
  IN
  CASE s.at = "Init" /\ resp = <<>> ->
         IF channel = None THEN VmErr(host, <<"ChannelNotFound", "channel-0">>)
         ELSE IF channel[1].state # "Open"
           THEN VmErr(host, <<"IncorrectChannelState", channel[1].state, "Open">>)
         ELSE IF packet.source_port # channel[1].counterparty.port_id
           THEN VmErr(host, <<"SourcePortMismatch", packet.source_port>>)
         ELSE IF packet.source_channel # channel[1].counterparty.channel_id
           THEN VmErr(host, <<"SourceChannelMismatch", packet.source_channel>>)
         ELSE IF timed_out(host, packet) THEN VmErr(host, <<"TimedOutPacket">>)
         ELSE IF channel[1].ordering = "Ordered"
                   /\ ~sequence_in_order(packet.sequence, next_sequence_recv)
           THEN VmErr(host, <<"SequenceOutOfOrder", packet.sequence>>)
         ELSE IF channel[1].ordering = "Unordered"
                   /\ IbcHost_read(host, ReceiptPath(packet.sequence)) # None
           THEN RecvPacket_duplicate(host, packet)
         ELSE Left(host, [s EXCEPT !.at = "MembershipVerified"],
                   IbcAction_Query(0,
                     <<[tag |-> "VerifyMembership",
                        path |-> CommitmentPath(packet.sequence),
                        value |-> packet_commitment(packet)]>>))
    [] s.at = "MembershipVerified" /\ OneResponse(resp, "VerifyMembership") ->
         IF ~resp[1].valid THEN VmErr(host, <<"MembershipVerificationFailure">>)
         ELSE Left(host, [s EXCEPT !.at = "CallbackCalled"],
                   IbcAction_Write(<<[tag |-> "OnRecvPacket", packet |-> packet]>>))
    [] s.at = "CallbackCalled" /\ OneResponse(resp, "OnRecvPacket") ->
         IF IbcHost_read(host, AcknowledgementPath(packet.sequence)) # None
           THEN VmErr(host, <<"AcknowledgementExists", packet.sequence>>)
         ELSE IF resp[1].acks = <<>> \/ resp[1].acks[1] = <<>>
           THEN VmErr(host, <<"EmptyAcknowledgement">>)
         ELSE LET acked == IbcHost_commit(host, AcknowledgementPath(packet.sequence),
                                          IbcHost_sha256(resp[1].acks[1]))
                  received ==
                    IF channel[1].ordering = "Ordered"
                      THEN IbcHost_commit(acked, NextSequenceRecvPath, next_sequence_recv + 1)
                      ELSE IbcHost_commit(acked, ReceiptPath(packet.sequence), 1)
              IN Right(received,
                       <<<<"RecvPacket", packet.sequence>>,
                         <<"WriteAcknowledgement", packet.sequence>>>>,
                       IbcVmResponse_Empty)
    [] OTHER -> VmErr(host, <<"UnexpectedAction">>)

Acknowledgement_process(s, host, resp) ==
  LET channel == IbcHost_read(host, ChannelEndPath)
      packet == s.packet
      committed == IbcHost_read(host, CommitmentPath(packet.sequence))
  IN
  CASE s.at = "Init" /\ resp = <<>> ->
         IF channel = None THEN VmErr(host, <<"ChannelNotFound", "channel-0">>)
         ELSE IF channel[1].state # "Open"
           THEN VmErr(host, <<"IncorrectChannelState", channel[1].state, "Open">>)
         ELSE IF committed # Some(packet_commitment(packet))
           THEN VmErr(host, <<"PacketCommitmentMismatch", committed,
                              packet_commitment(packet)>>)
         ELSE Left(host, [s EXCEPT !.at = "MembershipVerified"],
                   IbcAction_Query(0,
                     <<[tag |-> "VerifyMembership",
                        path |-> AcknowledgementPath(packet.sequence),
                        value |-> IbcHost_sha256(s.ack)]>>))
    [] s.at = "MembershipVerified" /\ OneResponse(resp, "VerifyMembership") ->
         IF ~resp[1].valid THEN VmErr(host, <<"MembershipVerificationFailure">>)
         ELSE LET deleted == IbcHost_delete(host, CommitmentPath(packet.sequence))
                  bumped ==
                    IF channel[1].ordering = "Ordered"
                      THEN IbcHost_commit(deleted, NextSequenceAckPath, packet.sequence + 1)
                      ELSE deleted
              IN Left(bumped, [s EXCEPT !.at = "CallbackCalled"],
                      IbcAction_Write(<<[tag |-> "OnAcknowledgePacket", packet |-> packet,
                                         ack |-> s.ack]>>))
    [] s.at = "CallbackCalled" /\ OneResponse(resp, "OnAcknowledgePacket") ->
         IF resp[1].err # None THEN VmErr(host, <<"IbcAppCallbackFailed", resp[1].err[1]>>)
         ELSE Right(host, <<<<"AcknowledgePacket", packet.sequence>>>>, IbcVmResponse_Empty)
    [] OTHER -> VmErr(host, <<"UnexpectedAction">>)

\* the client of the host, the consensus state at a height of its chain
ClientState(client_type, latest_height) ==
  [client_type |-> client_type, latest_height |-> latest_height]

\* CreateClient: the light client initializes, reports its status and its
\* latest height, and the client is stored
CreateClient_process(s, host, resp) ==
  CASE s.at = "Init" /\ resp = <<>> ->
         Left(host, [s EXCEPT !.at = "Initialized"],
              IbcAction_Write(<<[tag |-> "Initialize", client_id |-> 0,
                                 client_type |-> s.client_type]>>))
    [] s.at = "Initialized" /\ OneResponse(resp, "Initialize") ->
         Left(host, [s EXCEPT !.at = "StatusFetched"],
              IbcAction_Query(0, <<[tag |-> "Status"], [tag |-> "LatestHeight"]>>))
    [] s.at = "StatusFetched" /\ Len(resp) = 2 /\ resp[1].tag = "Status"
         /\ resp[2].tag = "LatestHeight" ->
         IF resp[1].status # "Active" THEN VmErr(host, <<"NotActive", 0, resp[1].status>>)
         ELSE Right(IbcHost_commit(host, ClientStatePath,
                                   ClientState(s.client_type, resp[2].height)),
                    <<<<"CreateClient", 0>>>>, IbcVmResponse_Empty)
    [] OTHER -> VmErr(host, <<"UnexpectedAction">>)

\* UpdateClient: the light client verifies the message and looks for
\* misbehaviour, then writes the update of either kind
UpdateClient_process(s, host, resp) ==
  LET stored == IbcHost_read(host, ClientStatePath) IN
  CASE s.at = "Init" /\ resp = <<>> ->
         IF stored = None THEN VmErr(host, <<"ClientNotFound", s.client_id>>)
         ELSE Left(host, [s EXCEPT !.at = "ClientMessageVerified"],
                   IbcAction_Query(s.client_id,
                     <<[tag |-> "Status"], [tag |-> "VerifyClientMessage"],
                       [tag |-> "CheckForMisbehaviour"]>>))
    [] s.at = "ClientMessageVerified" /\ Len(resp) = 3 /\ resp[1].tag = "Status"
         /\ resp[2].tag = "VerifyClientMessage" /\ resp[3].tag = "CheckForMisbehaviour" ->
         IF resp[1].status # "Active"
           THEN VmErr(host, <<"NotActive", s.client_id, resp[1].status>>)
         ELSE IF ~resp[2].valid THEN VmErr(host, <<"ClientMessageVerificationFailed">>)
         ELSE IF resp[3].misbehaviour_found
           THEN Left(host, [s EXCEPT !.at = "UpdatedStateOnMisbehaviour"],
                     IbcAction_Write(<<[tag |-> "UpdateStateOnMisbehaviour",
                                        client_id |-> s.client_id]>>))
         ELSE Left(host, [s EXCEPT !.at = "UpdatedState"],
                   IbcAction_Write(<<[tag |-> "UpdateState", client_id |-> s.client_id]>>))
    [] s.at = "UpdatedStateOnMisbehaviour"
         /\ OneResponse(resp, "UpdateStateOnMisbehaviour") ->
         Right(host, <<<<"ClientMisbehaviour", s.client_id>>>>, IbcVmResponse_Empty)
    [] s.at = "UpdatedState" /\ OneResponse(resp, "UpdateState") ->
         Right(IbcHost_commit(host, ClientStatePath,
                              [stored[1] EXCEPT !.latest_height = resp[1].height]),
               <<<<"UpdateClient", s.client_id, resp[1].height>>>>, IbcVmResponse_Empty)
    [] OTHER -> VmErr(host, <<"UnexpectedAction">>)

\* the connection a channel is opened over: open, and of a version whose
\* features hold the ordering of the channel
ChannelConnection(host, connection_id, ordering) ==
  LET connection == IbcHost_read(host, ConnectionPath(connection_id)) IN
  IF connection = None THEN <<"ConnectionNotFound", VmConnectionId(connection_id)>>
  ELSE IF connection[1].state # "Open"
    THEN <<"IncorrectConnectionState", connection[1].state, "Open">>
  ELSE IF ~\E i \in DOMAIN connection[1].versions :
             \E j \in DOMAIN connection[1].versions[i].features :
               connection[1].versions[i].features[j] = ordering
    THEN <<"UnsupportedFeatureInVersion", ordering>>
  ELSE <<>>

\* the four steps of the channel handshake, analogous to those of the
\* connection; the IBC app is called back before the channel end is stored
ChannelOpenInit_process(s, host, resp) ==
  CASE s.at = "Init" /\ resp = <<>> ->
         IF ChannelConnection(host, s.connection_id, s.ordering) # <<>>
           THEN VmErr(host, ChannelConnection(host, s.connection_id, s.ordering))
         ELSE Left(host, [s EXCEPT !.at = "CallbackCalled"],
                   IbcAction_Write(<<[tag |-> "OnChannelOpenInit", order |-> s.ordering,
                                      connection_id |-> s.connection_id,
                                      version |-> s.version]>>))
    [] s.at = "CallbackCalled" /\ OneResponse(resp, "OnChannelOpenInit") ->
         IF resp[1].err # None THEN VmErr(host, <<"IbcAppCallbackFailed", resp[1].err[1]>>)
         ELSE Right(IbcHost_commit(host, ChannelEndPath, ChannelEnd("Init", s.ordering)),
                    <<<<"ChannelOpenInit", s.version>>>>, IbcVmResponse_Empty)
    [] OTHER -> VmErr(host, <<"UnexpectedAction">>)

ChannelOpenTry_process(s, host, resp) ==
  CASE s.at = "Init" /\ resp = <<>> ->
         IF ChannelConnection(host, s.connection_id, s.ordering) # <<>>
           THEN VmErr(host, ChannelConnection(host, s.connection_id, s.ordering))
         ELSE Left(host, [s EXCEPT !.at = "ChannelStateVerified"],
                   IbcAction_Query(0, <<[tag |-> "VerifyMembership",
                                         path |-> <<"channelEnds", COUNTERPARTY_CHANNEL>>,
                                         value |-> "Init"]>>))
    [] s.at = "ChannelStateVerified" /\ OneResponse(resp, "VerifyMembership") ->
         IF ~resp[1].valid THEN VmErr(host, <<"MembershipVerificationFailure">>)
         ELSE Left(host, [s EXCEPT !.at = "CallbackCalled"],
                   IbcAction_Write(<<[tag |-> "OnChannelOpenTry", order |-> s.ordering,
                                      connection_id |-> s.connection_id,
                                      version |-> s.version,
                                      counterparty_version |-> s.counterparty_version]>>))
    [] s.at = "CallbackCalled" /\ OneResponse(resp, "OnChannelOpenTry") ->
         IF resp[1].err # None THEN VmErr(host, <<"IbcAppCallbackFailed", resp[1].err[1]>>)
         ELSE Right(IbcHost_commit(host, ChannelEndPath, ChannelEnd("Tryopen", s.ordering)),
                    <<<<"ChannelOpenTry", s.version>>>>, IbcVmResponse_Empty)
    [] OTHER -> VmErr(host, <<"UnexpectedAction">>)

ChannelOpenAck_process(s, host, resp) ==
  LET stored == IbcHost_read(host, ChannelEndPath) IN
  CASE s.at = "Init" /\ resp = <<>> ->
         IF stored = None THEN VmErr(host, <<"ChannelNotFound", "channel-0">>)
         ELSE IF stored[1].state # "Init"
           THEN VmErr(host, <<"IncorrectChannelState", stored[1].state, "Init">>)
         ELSE Left(host, [s EXCEPT !.at = "ChannelStateVerified"],
                   IbcAction_Query(0, <<[tag |-> "VerifyMembership",
                                         path |-> <<"channelEnds", COUNTERPARTY_CHANNEL>>,
                                         value |-> "Tryopen"]>>))
    [] s.at = "ChannelStateVerified" /\ OneResponse(resp, "VerifyMembership") ->
         IF ~resp[1].valid THEN VmErr(host, <<"MembershipVerificationFailure">>)
         ELSE Left(host, [s EXCEPT !.at = "CallbackCalled"],
                   IbcAction_Write(<<[tag |-> "OnChannelOpenAck",
                                      counterparty_version |-> s.counterparty_version]>>))
    [] s.at = "CallbackCalled" /\ OneResponse(resp, "OnChannelOpenAck") ->
         IF resp[1].err # None THEN VmErr(host, <<"IbcAppCallbackFailed", resp[1].err[1]>>)
         ELSE Right(IbcHost_commit(host, ChannelEndPath, [stored[1] EXCEPT !.state = "Open"]),
                    <<<<"ChannelOpenAck", s.counterparty_version>>>>, IbcVmResponse_Empty)
    [] OTHER -> VmErr(host, <<"UnexpectedAction">>)

ChannelOpenConfirm_process(s, host, resp) ==
  LET stored == IbcHost_read(host, ChannelEndPath) IN
  CASE s.at = "Init" /\ resp = <<>> ->
         IF stored = None THEN VmErr(host, <<"ChannelNotFound", "channel-0">>)
         ELSE IF stored[1].state # "Tryopen"
           THEN VmErr(host, <<"IncorrectChannelState", stored[1].state, "Tryopen">>)
         ELSE Left(host, [s EXCEPT !.at = "ChannelStateVerified"],
                   IbcAction_Query(0, <<[tag |-> "VerifyMembership",
                                         path |-> <<"channelEnds", COUNTERPARTY_CHANNEL>>,
                                         value |-> "Open"]>>))
    [] s.at = "ChannelStateVerified" /\ OneResponse(resp, "VerifyMembership") ->
         IF ~resp[1].valid THEN VmErr(host, <<"MembershipVerificationFailure">>)
         ELSE Left(host, [s EXCEPT !.at = "CallbackCalled"],
                   IbcAction_Write(<<[tag |-> "OnChannelOpenConfirm"]>>))
    [] s.at = "CallbackCalled" /\ OneResponse(resp, "OnChannelOpenConfirm") ->
         IF resp[1].err # None THEN VmErr(host, <<"IbcAppCallbackFailed", resp[1].err[1]>>)
         ELSE Right(IbcHost_commit(host, ChannelEndPath, [stored[1] EXCEPT !.state = "Open"]),
                    <<<<"ChannelOpenConfirm">>>>, IbcVmResponse_Empty)
    [] OTHER -> VmErr(host, <<"UnexpectedAction">>)

\* impl Runnable for IbcState: the step of the sub-state of the variant
IbcState_step(state, host, resp) ==
  CASE state.variant = "CreateClient" -> CreateClient_process(state.sub, host, resp)
    [] state.variant = "UpdateClient" -> UpdateClient_process(state.sub, host, resp)
    [] state.variant = "ConnectionOpenInit" ->
         ConnectionOpenInit_process(state.sub, host, resp)
    [] state.variant = "ConnectionOpenTry" ->
         ConnectionOpenTry_process(state.sub, host, resp)
    [] state.variant = "ConnectionOpenAck" ->
         ConnectionOpenAck_process(state.sub, host, resp)
    [] state.variant = "ConnectionOpenConfirm" ->
         ConnectionOpenConfirm_process(state.sub, host, resp)
    [] state.variant = "ChannelOpenInit" -> ChannelOpenInit_process(state.sub, host, resp)
    [] state.variant = "ChannelOpenTry" -> ChannelOpenTry_process(state.sub, host, resp)
    [] state.variant = "ChannelOpenAck" -> ChannelOpenAck_process(state.sub, host, resp)
    [] state.variant = "ChannelOpenConfirm" ->
         ChannelOpenConfirm_process(state.sub, host, resp)
    [] state.variant = "SendPacket" -> SendPacket_process(state.sub, host, resp)
    [] state.variant = "RecvPacket" -> RecvPacket_process(state.sub, host, resp)
    [] state.variant = "AcknowledgePacket" ->
         Acknowledgement_process(state.sub, host, resp)

\* IbcState::process that wraps the next sub-state of every step in the
\* variant of the first handshake step
process_rewrapped(state, host, resp) ==
  LET res == IbcState_step(state, host, resp)
  IN IF res.tag = "Left"
       THEN [res EXCEPT !.state = [variant |-> "ConnectionOpenInit", sub |-> res.state]]
       ELSE res

\* cast_either: the next sub-state of a step wrapped in the variant it came
\* from; a result and an error as they are
process(state, host, resp) ==
  LET res == IbcState_step(state, host, resp)
  IN IF res.tag = "Left"
       THEN [res EXCEPT !.state = [variant |-> state.variant, sub |-> res.state]]
       ELSE res

\* the answers of the light client and of the IBC app to the actions of a run
Answers(valid, acks, err) ==
  [valid |-> valid, acks |-> acks, err |-> err, latest |-> 5, status |-> "Active",
   misbehaviour_found |-> FALSE]
AllGood == Answers(TRUE, <<<<"a">>>>, None)

\* the host carries out an action: the responses of the next round
respond(action, answers) ==
  [i \in DOMAIN action.items |->
     CASE action.items[i].tag \in {"VerifyMembership", "VerifyClientMessage"} ->
            [tag |-> action.items[i].tag, valid |-> answers.valid]
       [] action.items[i].tag = "Initialize" -> [tag |-> "Initialize"]
       [] action.items[i].tag = "Status" -> [tag |-> "Status", status |-> answers.status]
       [] action.items[i].tag = "CheckForMisbehaviour" ->
            [tag |-> "CheckForMisbehaviour",
             misbehaviour_found |-> answers.misbehaviour_found]
       [] action.items[i].tag = "UpdateStateOnMisbehaviour" ->
            [tag |-> "UpdateStateOnMisbehaviour"]
       [] action.items[i].tag = "UpdateState" ->
            [tag |-> "UpdateState", height |-> answers.latest + 1]
       [] action.items[i].tag \in {"OnChannelOpenInit", "OnChannelOpenTry",
                                   "OnChannelOpenAck", "OnChannelOpenConfirm"} ->
            [tag |-> action.items[i].tag, err |-> answers.err]
       [] action.items[i].tag = "LatestHeight" ->
            [tag |-> "LatestHeight", height |-> answers.latest]
       [] action.items[i].tag = "OnRecvPacket" ->
            [tag |-> "OnRecvPacket", acks |-> answers.acks]
       [] action.items[i].tag = "OnAcknowledgePacket" ->
            [tag |-> "OnAcknowledgePacket", err |-> answers.err]]

\* a datagram: the state the VM starts from, and the answers to its actions
Datagram(kind, sub, answers) ==
  [state |-> [variant |-> kind, sub |-> sub], answers |-> answers]

ConnectionDatagrams ==
  {Datagram("ConnectionOpenInit",
            [at |-> "Init", client_id |-> 1, counterparty_client_id |-> 2], AllGood)}
    \cup {Datagram("ConnectionOpenTry",
                   [at |-> "Init", client_id |-> 1, counterparty_client_id |-> 2,
                    counterparty_connection_id |-> 7, counterparty_versions |-> x.versions],
                   Answers(x.valid, <<>>, None)) :
            x \in {[versions |-> DEFAULT_IBC_VERSION, valid |-> TRUE],
                   [versions |-> DEFAULT_IBC_VERSION, valid |-> FALSE],
                   [versions |-> <<[identifier |-> <<"2">>, features |-> <<"Unordered">>]>>,
                    valid |-> TRUE]}}
    \cup {Datagram("ConnectionOpenAck",
                   [at |-> "Init", connection_id |-> n, counterparty_connection_id |-> 7,
                    version |-> [identifier |-> <<"1">>, features |-> x.features]],
                   Answers(x.valid, <<>>, None)) :
            n \in 0..MaxConnections,
            x \in {[features |-> <<"Unordered">>, valid |-> TRUE],
                   [features |-> <<"Unordered">>, valid |-> FALSE],
                   [features |-> <<"Ordered", "Unordered">>, valid |-> TRUE],
                   [features |-> <<>>, valid |-> TRUE]}}
    \cup {Datagram("ConnectionOpenConfirm", [at |-> "Init", connection_id |-> n],
                   Answers(valid, <<>>, None)) :
            n \in 0..MaxConnections, valid \in BOOLEAN}

PacketDatagrams ==
  {Datagram("SendPacket", [at |-> "Init", packet |-> Packet(0, "channel-0", t[1], t[2])],
            AllGood) :
     t \in {<<10, 0>>, <<0, 0>>, <<4, 0>>}}
    \cup {Datagram("RecvPacket",
                   [at |-> "Init", packet |-> Packet(s, COUNTERPARTY_CHANNEL, 10, 0)], a) :
            s \in 1..MaxSequence,
            a \in {AllGood, Answers(FALSE, <<>>, None), Answers(TRUE, <<<<>>>>, None)}}
    \cup {Datagram("RecvPacket",
                   [at |-> "Init", packet |-> Packet(s, COUNTERPARTY_CHANNEL, 4, 0)],
                   AllGood) :
            s \in 1..MaxSequence}
    \cup {Datagram("RecvPacket", [at |-> "Init", packet |-> p], AllGood) :
            p \in {Packet(1, COUNTERPARTY_CHANNEL, 0, 7), Packet(1, "channel-9", 10, 0)}}
    \cup {Datagram("AcknowledgePacket",
                   [at |-> "Init", packet |-> Packet(s, "channel-0", 10, 0), ack |-> <<"a">>],
                   a) :
            s \in 1..MaxSequence,
            a \in {AllGood, Answers(FALSE, <<>>, None), Answers(TRUE, <<>>, Some("failed"))}}
    \cup {Datagram("AcknowledgePacket",
                   [at |-> "Init", packet |-> Packet(s, "channel-0", 0, 7), ack |-> <<"a">>],
                   AllGood) :
            s \in 1..MaxSequence}

ClientDatagrams ==
  {Datagram("CreateClient", [at |-> "Init", client_type |-> "cometbls"], a) :
     a \in {AllGood, [AllGood EXCEPT !.status = "Frozen"]}}
    \cup {Datagram("UpdateClient", [at |-> "Init", client_id |-> 0], a) :
            a \in {AllGood, Answers(FALSE, <<>>, None),
                   [AllGood EXCEPT !.status = "Expired"],
                   [AllGood EXCEPT !.misbehaviour_found = TRUE]}}

ChannelDatagrams ==
  {Datagram(kind, [at |-> "Init", connection_id |-> n, ordering |-> o, version |-> "ucs01",
                   counterparty_version |-> "ucs01"], a) :
     kind \in {"ChannelOpenInit", "ChannelOpenTry"}, n \in 0..MaxConnections,
     o \in {"Unordered", "Ordered"},
     a \in {AllGood, Answers(FALSE, <<>>, None), Answers(TRUE, <<>>, Some("failed"))}}
    \cup {Datagram(kind, [at |-> "Init", counterparty_version |-> "ucs01"], a) :
            kind \in {"ChannelOpenAck", "ChannelOpenConfirm"},
            a \in {AllGood, Answers(FALSE, <<>>, None),
                   Answers(TRUE, <<>>, Some("failed"))}}

\* the datagrams a host is handed: those of its client, of the connection
\* handshake, of the channel handshake, or the packets of its channel
Datagrams(family) ==
  CASE family = "client" -> ClientDatagrams
    [] family = "connection" -> ConnectionDatagrams
    [] family = "channel" -> ChannelDatagrams
    [] OTHER -> PacketDatagrams

\* the host at genesis: nothing allocated, one open channel, or one open
\* connection and no channel yet; and what its VM has accepted so far
InitHost(node, ordering) ==
  [kv |-> [k \in VmKeys |->
             CASE k = ChannelEndPath ->
                    IF ordering = "None" THEN None ELSE Some(ChannelEnd("Open", ordering))
               [] k = ConnectionPath(0) /\ ordering = "None" ->
                    Some(ConnectionEnd(1, DEFAULT_IBC_VERSION, "Open",
                                       Counterparty(2, Some(7)), 0))
               [] k = NextConnectionSequencePath /\ ordering = "None" -> Some(1)
               [] k \in {NextSequenceSendPath, NextSequenceRecvPath, NextSequenceAckPath} ->
                    Some(1)
               [] k = NextConnectionSequencePath -> Some(0)
               [] OTHER -> None],
   height |-> 5, timestamp |-> 5, local_time |-> 5 + 4 * (node - 1),
   received |-> {}, acknowledged |-> [s \in 1..(MaxSequence + 1) |-> 0]]

\* the run of one datagram on a host: the state to process next, the
\* responses for it, the host as the steps have left it, and what came out
NoState == [variant |-> "none"]
NoRet == [tag |-> "none"]
VmRun(at, state, host) ==
  [at |-> at, state |-> state, resp |-> <<>>, host |-> host, pre |-> host,
   actions |-> <<>>, events |-> <<>>, ret |-> NoRet]

\* the host after a run that keeps what an erring run wrote
vm_finish_partial(host, res) == res.host
\* the host after a run: the writes of a run that ended in Right
vm_finish(host, res) == IF res.tag = "Right" THEN res.host ELSE host

\* what a finished run adds to the record of accepted datagrams
accepted(host, state, res) ==
  IF res.tag # "Right" THEN host
  ELSE IF state.variant = "RecvPacket" /\ res.events # <<>>
    THEN [host EXCEPT !.received = @ \cup {state.sub.packet}]
  ELSE IF state.variant = "AcknowledgePacket"
    THEN [host EXCEPT !.acknowledged[state.sub.packet.sequence] = @ + 1]
  ELSE host

InitVm(ordering) ==
  /\ hosts = [h \in VmHosts |-> InitHost(h, ordering)]
  /\ runs = [h \in VmHosts |-> VmRun("idle", NoState, InitHost(h, ordering))]
  /\ fed = Datagram("none", [at |-> "Init"], AllGood)

\* no host runs the VM
NoVm ==
  /\ hosts = <<>>
  /\ runs = <<>>
  /\ fed = NoValue

\* a datagram is handed to the first node
vm_submit(d) ==
  /\ value.type = "vm"
  /\ d \in Datagrams(value.family)
  /\ \A h \in VmHosts : runs[h].at \in {"idle", "done"}
  /\ d.state.variant = "SendPacket"
       => IbcHost_read(hosts[1], NextSequenceSendPath)[1] <= MaxSequence
  /\ d.state.variant \in {"ConnectionOpenInit", "ConnectionOpenTry"}
       => IbcHost_read(hosts[1], NextConnectionSequencePath)[1] < MaxConnections
  /\ d.state.variant = "CreateClient" => IbcHost_read(hosts[1], ClientStatePath) = None
  /\ d.state.variant \in {"ChannelOpenInit", "ChannelOpenTry"}
       => IbcHost_read(hosts[1], ChannelEndPath) = None
  /\ fed' = d
  /\ runs' = [h \in VmHosts |->
                IF h = 1 THEN VmRun("process", d.state, hosts[h])
                ELSE VmRun("waiting", NoState, hosts[h])]
  /\ UNCHANGED <<subvars, height, last, queuevars, value, result, nearvars, cachevars, hosts>>

\* the same datagram is handed to another node, once the first is done
vm_replay(h) ==
  /\ runs[1].at = "done"
  /\ runs[h].at = "waiting"
  /\ runs' = [runs EXCEPT ![h] = VmRun("process", fed.state, hosts[h])]
  /\ UNCHANGED <<subvars, height, last, queuevars, value, result, nearvars, cachevars, hosts,
                 fed>>

\* one call of process, and the host carrying out the action it asks for
vm_step(h) ==
  LET run == runs[h]
      res == process(run.state, run.host, run.resp)
  IN /\ run.at = "process"
     /\ runs' = [runs EXCEPT ![h] =
                   CASE res.tag = "Left" ->
                          [run EXCEPT !.state = res.state, !.host = res.host,
                                      !.resp = respond(res.action, fed.answers),
                                      !.actions = Append(@, res.action)]
                     [] res.tag = "Right" ->
                          [run EXCEPT !.at = "done", !.host = res.host,
                                      !.events = res.events, !.ret = Ok(res.response)]
                     [] res.tag = "Err" ->
                          [run EXCEPT !.at = "done", !.host = res.host, !.ret = Err(res.e)]]
     /\ hosts' = [hosts EXCEPT ![h] =
                    IF res.tag = "Left" THEN @
                    ELSE accepted(vm_finish(@, res), run.state, res)]
     /\ UNCHANGED <<subvars, height, last, queuevars, value, result, nearvars, cachevars, fed>>

(* ------------------- submitters: the match on the result --------------- *)

\* the lists of messages a submission is called with: 1..MaxBatch + 1 messages
MessageLists == UNION {[1..n -> MsgIds] : n \in 1..(MaxBatch + 1)}

\* what keyring.with hands back to the match that ends a submission
EvmResults ==
  {ResOk, ResNone, ResPanic, ResErr(GasPriceTooHigh(1, 2))}
    \cup {ResErr(TxSubmitError(k)) : k \in {"OutOfGas", "EmptyRevert", "NoTxReceipt", "Error"}}
CosmosResults ==
  {ResOk, ResNone, ResPanic}
    \cup {ResErr(BroadcastTxCommitError(k, NoTxErr, <<>>)) :
            k \in {"AccountSequenceMismatch", "OutOfGas", "SimulateTx", "QueryLatestHeight",
                   "Inclusion", "BroadcastTxSync"}}
    \cup {ResErr(BroadcastTxCommitError("Tx", TxErr("ClientError", "ErrClientNotFound"), <<>>))}
Submissions ==
  {[type |-> "submission", submitter |-> "evm", res |-> res, msgs |-> m] :
     res \in EvmResults, m \in MessageLists}
    \cup {[type |-> "submission", submitter |-> "cosmos", res |-> res, msgs |-> m] :
            res \in CosmosResults, m \in MessageLists}

\* send_transaction returns: the match on res
send_transaction_returns ==
  /\ value.type = "submission"
  /\ value.submitter = "evm"
  /\ result' = [fn |-> "send_transaction", arg |-> value,
                ret |-> evm_resolve(value.res, value.msgs)]
  /\ UNCHANGED <<subvars, height, last, queuevars, value, nearvars, restvars>>

\* call(SubmitTransaction(msgs)) returns: the match on res of
\* do_send_transaction and the map_err of call
do_send_transaction_returns ==
  /\ value.type = "submission"
  /\ value.submitter = "cosmos"
  /\ result' = [fn |-> "do_send_transaction", arg |-> value,
                ret |-> cosmos_call(value.res, value.msgs)]
  /\ UNCHANGED <<subvars, height, last, queuevars, value, nearvars, restvars>>

\* what the rest of the state is while a specification does not use it
InitRest ==
  /\ InitCache
  /\ NoVm

\* no conversion is applied and the NEAR client is not instantiated
InitLib ==
  /\ value = NoValue
  /\ result = NoResult
  /\ InitNear({0}, {"root-a"})
  /\ InitRest

(* --------------------------- specifications ---------------------------- *)

InitSubs ==
  /\ pc = [s \in Subs |-> "idle"]
  /\ msgs = [s \in Subs |-> <<>>]
  /\ held = [s \in Subs |-> NoKey]
  /\ io = [s \in Subs |-> <<>>]
  /\ price = [s \in Subs |-> NoPrice]
  /\ polls = [s \in Subs |-> 0]
  /\ target = [s \in Subs |-> 0]
  /\ reached = [s \in Subs |-> 0]
  /\ last = NoAttempt

\* no op is queued and the chain has no block
InitQueue ==
  /\ height = 0
  /\ queue = EmptyBag
  /\ now = 0
  /\ blocks = [h \in 1..MaxHeight |-> <<>>]
  /\ root = noop
  /\ ran = NoRun

\* the EVM submitter, configured with one key
InitEvm ==
  /\ variant = "evm"
  /\ max_gas_price \in MaxGasPrices
  /\ keyring = {1}
  /\ InitSubs
  /\ InitQueue
  /\ InitLib

NextEvm ==
  \E s \in Subs :
    \/ \E m \in Batches : with_none(s, m)
    \/ \E m \in Batches : with_some(s, m)
    \/ evm_get_gas_price(s, Prices \cup {NoPrice})
    \/ evm_estimate_gas(s, {"ok", "revert", "error"})
    \/ evm_send(s, {NoSendErr} \cup SendErrors)
    \/ evm_receipt(s, {"provider", "none", "nolog", "receipt"}, AllResults)

SpecEvm == InitEvm /\ [][NextEvm]_vars

\* the Cosmos submitter, configured with one key, and the chain it submits
\* to; the submitter hands its messages on as they are, so a single message
\* and a batch of two stand for every submission
InitCosmos ==
  /\ variant = "cosmos"
  /\ max_gas_price = NoMax
  /\ keyring = {1}
  /\ InitSubs
  /\ InitQueue
  /\ InitLib

NextCosmos ==
  \/ commit_block
  \/ \E s \in Subs :
       \/ \E m \in FewBatches : with_none(s, m)
       \/ \E m \in FewBatches : with_some(s, m)
       \/ cosmos_simulate(s, SimulateOutcomes)
       \/ cosmos_tx_lookup(s, {NoTxErr, RpcFailed} \cup FewTxErrors)
       \/ cosmos_broadcast(s, {NoTxErr, RpcFailed} \cup TxErrors)
       \/ cosmos_block(s, BOOLEAN)
       \/ cosmos_inclusion(s, {NoTxErr, RpcFailed} \cup TxErrors)

SpecCosmos == InitCosmos /\ [][NextCosmos]_vars

\* one submission after the other of the Cosmos submitter, on a chain that
\* keeps committing blocks and answers the height queries, the task of the
\* submission being scheduled fairly
NextPolling ==
  \/ commit_block
  \/ \E m \in FewBatches : with_some(1, m)
  \/ cosmos_simulate(1, SimulateOutcomes)
  \/ cosmos_tx_lookup(1, {NoTxErr, RpcFailed} \cup FewTxErrors)
  \/ cosmos_broadcast(1, {NoTxErr, RpcFailed} \cup TxErrors)
  \/ cosmos_block(1, BOOLEAN)
  \/ cosmos_inclusion(1, {NoTxErr, RpcFailed} \cup TxErrors)

SpecPolling ==
  /\ InitCosmos
  /\ [][NextPolling]_vars
  /\ WF_vars(commit_block)
  /\ WF_vars(cosmos_block(1, {TRUE}))
  /\ WF_vars(cosmos_inclusion(1, {NoTxErr, RpcFailed} \cup TxErrors))

\* either submitter with all its keys, under concurrent submissions; the
\* chain answers every request, and a transaction succeeds or fails
InitKeyring ==
  /\ variant \in {"evm", "cosmos"}
  /\ max_gas_price = IF variant = "evm" THEN 0 ELSE NoMax
  /\ keyring = Keys
  /\ InitSubs
  /\ InitQueue
  /\ InitLib

NextKeyring ==
  \E s \in Subs :
    \/ \E m \in FewBatches : with_none(s, m)
    \/ \E m \in FewBatches : with_some(s, m)
    \/ evm_get_gas_price(s, {0, 1, NoPrice})
    \/ evm_estimate_gas(s, {"ok", "error"})
    \/ evm_send(s, {NoSendErr} \cup FewSendErrors)
    \/ evm_receipt(s, {"none", "receipt"}, FewResults)
    \/ cosmos_simulate(s, {SimulateResult("ok", <<>>), SimulateResult("panic", <<>>)})
    \/ cosmos_tx_lookup(s, {RpcFailed})
    \/ cosmos_broadcast(s, {NoTxErr, RpcFailed})
    \/ cosmos_block(s, BOOLEAN)
    \/ cosmos_inclusion(s, {NoTxErr} \cup FewTxErrors)

SpecKeyring == InitKeyring /\ [][NextKeyring]_vars

\* the event source: the queue is started with Call::FetchBlocks of the
\* module's chain at the height the chain has reached, two blocks before the last one; the first block it
\* reads holds two transactions and the next block one, with IBC events of
\* any kind among their events
StartHeight == MaxHeight - 2
Tx(hash, events) == [hash |-> hash, events |-> events]
Chains ==
  {[h \in 1..MaxHeight |->
      IF h = StartHeight
        THEN <<Tx("H1", <<e1, RawEvent("Other", "transfer")>>), Tx("H2", <<e2>>)>>
      ELSE IF h = StartHeight + 1 THEN <<Tx("H3", <<e1>>)>>
      ELSE <<>>] :
     e1 \in RawEvents \ {RawEvent("Other", "transfer")},
     e2 \in {RawEvent("IbcV1", "SendPacket"), RawEvent("IbcV1", "RecvPacket")}}

\* the ops the EVM submitter hands back to the queue for another attempt
RetryOps ==
  {evm_resolve(res, m).op :
     res \in {ResNone, ResErr(GasPriceTooHigh(0, 1)), ResErr(TxSubmitError("OutOfGas")),
              ResErr(TxSubmitError("EmptyRevert"))},
     m \in FewBatches}

InitEvents ==
  /\ variant = "evm"
  /\ max_gas_price = NoMax
  /\ keyring = {1}
  /\ InitSubs
  /\ height = StartHeight
  /\ now = 0
  /\ root \in {call(Call_FetchBlocks(EVENT_CHAIN_ID, Height(1, StartHeight)))} \cup RetryOps
  /\ blocks \in IF root \in RetryOps THEN {[h \in 1..MaxHeight |-> <<>>]} ELSE Chains
  /\ queue = SetToBag({root})
  /\ ran = NoRun
  /\ InitLib

NextEvents ==
  \/ commit_block
  \/ tick
  \/ queue_pass
  \/ queue_conc
  \/ queue_wait_for_height
  \/ queue_defer
  \/ queue_effect
  \/ ev_fetch_blocks
  \/ ev_fetch_transactions(BOOLEAN)
  \/ ev_make_chain_event(BOOLEAN)

SpecEvents == InitEvents /\ [][NextEvents]_vars

\* the queue under fair scheduling on a chain that keeps finalising blocks:
\* the chain goes on to its next block, and an op of the queue that can be
\* handled is handled
SpecEventsFair ==
  /\ SpecEvents
  /\ WF_vars(commit_block)
  /\ WF_vars(queue_pass)
  /\ WF_vars(queue_conc)
  /\ WF_vars(queue_wait_for_height)
  /\ WF_vars(ev_fetch_blocks)

\* the paging of one block: the queue holds FetchTransactions of the first
\* page of a block with up to MaxTxs transactions, each with one IBC event;
\* the MakeChainEvent calls the pages emit are left in the queue
MaxTxs == 21
PagedChains ==
  {[h \in 1..MaxHeight |->
      IF h = StartHeight
        THEN [i \in 1..t |-> Tx(<<"H", i>>, <<RawEvent("IbcV1", "SendPacket")>>)]
        ELSE <<>>] : t \in 0..MaxTxs}

InitPaging ==
  /\ variant = "evm"
  /\ max_gas_price = NoMax
  /\ keyring = {1}
  /\ InitSubs
  /\ height = StartHeight
  /\ now = 0
  /\ root = call(PluginMessage(FetchTransactions(Height(1, StartHeight), 1)))
  /\ blocks \in PagedChains
  /\ queue = SetToBag({root})
  /\ ran = NoRun
  /\ InitLib

NextPaging ==
  \/ queue_conc
  \/ ev_fetch_transactions(BOOLEAN)

SpecPaging == InitPaging /\ [][NextPaging]_vars

\* the conversions of unionlabs, applied to one value
InitCodec ==
  /\ variant = "evm"
  /\ max_gas_price = NoMax
  /\ keyring = {1}
  /\ InitSubs
  /\ InitQueue
  /\ InitNear({0}, {"root-a"})
  /\ value \in Values
  /\ result = NoResult
  /\ InitRest

NextCodec ==
  \/ encode_eth_abi
  \/ into_proto
  \/ try_from_proto(BOOLEAN)

SpecCodec == InitCodec /\ [][NextCodec]_vars

\* a QueryHeight is written as a string and the string is parsed back
InitQueryHeight ==
  /\ variant = "evm"
  /\ max_gas_price = NoMax
  /\ keyring = {1}
  /\ InitSubs
  /\ InitQueue
  /\ InitNear({0}, {"root-a"})
  /\ value \in {[type |-> "QueryHeight", q |-> q] : q \in QueryHeights}
  /\ result = NoResult
  /\ InitRest

NextQueryHeight ==
  \/ query_height_to_string
  \/ query_height_from_str

SpecQueryHeight == InitQueryHeight /\ [][NextQueryHeight]_vars

\* the NEAR light client, instantiated at height 0 or 1, and the arguments
\* its verify_membership is called with
InitNearClient ==
  /\ variant = "evm"
  /\ max_gas_price = NoMax
  /\ keyring = {1}
  /\ InitSubs
  /\ InitQueue
  /\ InitNear({0, 1}, NearRoots)
  /\ value \in MembershipArgs
  /\ result = NoResult
  /\ InitRest

NextNear ==
  \/ near_update_state
  \/ near_verify_membership

SpecNear == InitNearClient /\ [][NextNear]_vars

\* the NEAR light client under updates alone: instantiated at any height, with
\* a root of the headers or one of its own, then headers of every height in
\* any order
InitNearUpdates ==
  /\ variant = "evm"
  /\ max_gas_price = NoMax
  /\ keyring = {1}
  /\ InitSubs
  /\ InitQueue
  /\ InitNear(0..MaxNearHeight, NearRoots \cup {"root-0"})
  /\ value = NoValue
  /\ result = NoResult
  /\ InitRest

SpecNearUpdates == InitNearUpdates /\ [][near_update_state]_vars

\* the checksum cache of the event source under concurrent calls; the chain
\* stores one wasm code per checksum
InitChecksums ==
  /\ variant = "evm"
  /\ max_gas_price = NoMax
  /\ keyring = {1}
  /\ InitSubs
  /\ InitQueue
  /\ InitNear({0}, {"root-a"})
  /\ value \in {[type |-> "wasm", code |-> code] : code \in [Checksums -> WasmCodes]}
  /\ result = NoResult
  /\ InitRest

NextCache ==
  \E p \in Lookups :
    \/ lookup_call(p)
    \/ lookup_connect(p, BOOLEAN)
    \/ lookup_code(p, BOOLEAN)

SpecCache == InitChecksums /\ [][NextCache]_vars

\* one pass of the queue over a list of ops, handed to a plugin
InitPass ==
  /\ variant = "cosmos"
  /\ max_gas_price = NoMax
  /\ keyring = {1}
  /\ InitSubs
  /\ InitQueue
  /\ InitNear({0}, {"root-a"})
  /\ value \in Passes
  /\ result = NoResult
  /\ InitRest

NextPass ==
  \/ tx_run_pass_call
  \/ ev_run_pass_call

SpecPass == InitPass /\ [][NextPass]_vars

\* two nodes of a host chain run the IBC VM over the same datagrams: those of
\* a client, of the connection handshake, of the channel handshake, or the
\* packets of an ordered or unordered channel
InitIbc ==
  /\ variant = "evm"
  /\ max_gas_price = NoMax
  /\ keyring = {1}
  /\ InitSubs
  /\ InitQueue
  /\ InitNear({0}, {"root-a"})
  /\ value \in {[type |-> "vm", family |-> "client", ordering |-> "Unordered"],
                 [type |-> "vm", family |-> "connection", ordering |-> "Unordered"],
                 [type |-> "vm", family |-> "channel", ordering |-> "None"],
                 [type |-> "vm", family |-> "packet", ordering |-> "Unordered"],
                 [type |-> "vm", family |-> "packet", ordering |-> "Ordered"]}
  /\ result = NoResult
  /\ InitCache
  /\ InitVm(value.ordering)

NextVm ==
  \/ \E d \in ClientDatagrams \cup ConnectionDatagrams \cup ChannelDatagrams
               \cup PacketDatagrams : vm_submit(d)
  \/ \E h \in VmHosts : vm_replay(h)
  \/ \E h \in VmHosts : vm_step(h)

SpecVm == InitIbc /\ [][NextVm]_vars

\* the end of a submission of either submitter: a list of messages and what
\* the attempt under the key came to
InitRetry ==
  /\ variant = "evm"
  /\ max_gas_price = NoMax
  /\ keyring = {1}
  /\ InitSubs
  /\ InitQueue
  /\ InitNear({0}, {"root-a"})
  /\ value \in Submissions
  /\ result = NoResult
  /\ InitRest

NextRetry ==
  \/ send_transaction_returns
  \/ do_send_transaction_returns

SpecRetry == InitRetry /\ [][NextRetry]_vars

TypeOK ==
  /\ variant \in {"evm", "cosmos"}
  /\ keyring \subseteq Keys
  /\ \A s \in Subs : held[s] \in Keys \cup {NoKey}
  /\ \A s \in Subs : polls[s] \in 0..(MAX_FAILED_POLLS + 1)
  /\ \A s \in Subs : target[s] \in 0..(MaxHeight + 1)
  /\ \A s \in Subs : reached[s] \in 0..MaxHeight
  /\ height \in 0..MaxHeight

(* ------------------------------ properties ----------------------------- *)

\* the messages an op hands back to the queue for another submission
Resubmitted(o) ==
  CASE o.op = "Effect" -> o.effect.message
    [] o.op = "Call" -> o.call.message.msgs
    [] o.op = "Seq" /\ Len(o.ops) = 2 /\ o.ops[2].op = "Effect" -> o.ops[2].effect.message
    [] OTHER -> <<>>

\* ret is Ok(Seq([Defer(secs), Effect(m)])), the effect a Batch of the list m
\* or, for a single message, a Single of it
IsDeferredRetry(ret, secs, m) ==
  /\ ret.tag = "Ok"
  /\ ret.op.op = "Seq"
  /\ Len(ret.op.ops) = 2
  /\ ret.op.ops[1] = [op |-> "Defer", secs |-> secs]
  /\ ret.op.ops[2].op = "Effect"
  /\ ret.op.ops[2].effect.tag = (IF Len(m) = 1 THEN "Single" ELSE "Batch")
  /\ ret.op.ops[2].effect.message = m

IsNoop(ret) == ret.tag = "Ok" /\ ret.op = [op |-> "Noop"]

Requested(calls, name) == \E i \in DOMAIN calls : calls[i].call = name

\* C1: no two in-flight submissions hold the same key, and a key held by an
\* in-flight submission is not free in the keyring
C1_ExclusiveLease ==
  /\ \A s \in Subs : InFlight(s) => held[s] \in Keys /\ held[s] \notin keyring
  /\ \A s, t \in Subs : s # t /\ InFlight(s) /\ InFlight(t) => held[s] # held[t]

C1_Witness ==
  \E s, t \in Subs : s # t /\ InFlight(s) /\ InFlight(t) /\ keyring = {}

\* C2: with a maximum configured, an attempt whose fetched gas price is above
\* it ends as GasPriceTooHigh after the price request alone, resolved to
\* Seq([Defer(6), Effect(same messages)]); an attempt whose price is at most
\* the maximum, or that has no maximum, goes on to the gas estimation
C2_GasPriceTooHigh ==
  /\ (last.done /\ max_gas_price # NoMax /\ last.price # NoPrice
        /\ last.price > max_gas_price)
       => /\ last.res.tag = "Err"
          /\ last.res.err.kind = "GasPriceTooHigh"
          /\ Calls(last.io) = <<"get_gas_price">>
          /\ IsDeferredRetry(last.ret, 6, last.msgs)
  /\ (last.done /\ last.price # NoPrice /\ last.price <= max_gas_price)
       => /\ Len(last.io) >= 2
          /\ last.io[2].call = "estimate_gas"
          /\ ~(last.res.tag = "Err" /\ last.res.err.kind = "GasPriceTooHigh")
  /\ (last.done /\ max_gas_price = NoMax /\ last.io # <<>>)
       => last.io[1].call = "estimate_gas"
  /\ \A s \in Subs :
       (InFlight(s) /\ price[s] # NoPrice)
         => price[s] <= max_gas_price /\ pc[s] # "get_gas_price"

C2_Witness ==
  /\ last.done
  /\ last.res.tag = "Err"
  /\ last.res.err.kind = "GasPriceTooHigh"
  /\ Len(last.msgs) = 2
  /\ last.price = max_gas_price + 1

\* a receipt was obtained and the multicall's results were decoded
HasReceipt == last.done /\ last.results # <<>>
EmptyRevertAt(i) == ~last.results[i].success /\ last.results[i].return_data = <<>>
KnownRevertAt(i) ==
  ~last.results[i].success /\ IbcHandlerErrors_decode(last.results[i].return_data)
OtherRevertAt(i) ==
  ~last.results[i].success /\ ~KnownRevertAt(i) /\ ~EmptyRevertAt(i)

C4_KnownRevertDropped ==
  HasReceipt =>
    \A i \in DOMAIN last.results :
      KnownRevertAt(i) =>
        \A j \in DOMAIN Resubmitted(last.ret.op) :
          Resubmitted(last.ret.op)[j] # last.msgs[i]

\* C5: a message that failed with empty return data makes the attempt an
\* EmptyRevert, resolved to Seq([Defer(12), Effect(msgs)])
C5_EmptyRevert ==
  (HasReceipt /\ \E i \in DOMAIN last.results : EmptyRevertAt(i))
    => /\ last.res.tag = "Err"
       /\ last.res.err.kind = "EmptyRevert"
       /\ IsDeferredRetry(last.ret, 12, last.msgs)

C5_Witness ==
  /\ HasReceipt
  /\ Len(last.msgs) = 2
  /\ last.results[1].success
  /\ EmptyRevertAt(2)
  /\ IsDeferredRetry(last.ret, 12, last.msgs)

\* the send failed with a JSON-RPC error response whose message contains the
\* insufficient-funds text, straight from the provider or through the
\* signer and nonce-manager middleware
InsufficientFunds(e) ==
  /\ e.path \in {"provider", "middleware"}
  /\ e.response
  /\ \E i \in DOMAIN e.message : e.message[i] = INSUFFICIENT_FUNDS[1]

\* C6: such a failure of the send makes the attempt OutOfGas, resolved to
\* Seq([Defer(12), Effect(msgs)])
C6_OutOfGas ==
  (last.done /\ InsufficientFunds(last.send_err))
    => /\ last.res.tag = "Err"
       /\ last.res.err.kind = "OutOfGas"
       /\ IsDeferredRetry(last.ret, 12, last.msgs)

C6_Witness ==
  /\ last.done
  /\ last.send_err.path = "middleware"
  /\ InsufficientFunds(last.send_err)
  /\ Len(last.send_err.message) > 1
  /\ IsDeferredRetry(last.ret, 12, last.msgs)

\* C7: an error of the closure other than GasPriceTooHigh, OutOfGas and
\* EmptyRevert is returned as an error whose code is not the transient -1
C7_OtherErrorsFatal ==
  (last.done /\ last.res.tag = "Err"
     /\ last.res.err.kind \notin {"GasPriceTooHigh", "OutOfGas", "EmptyRevert"})
    => last.ret.tag = "Err" /\ last.ret.code # -1

\* C8: a transaction that fails with ErrWrongSequence, at CheckTx or at
\* inclusion, is resolved to Ok(Call(SubmitTransaction(msgs))) with the very
\* messages of the call
C8_WrongSequenceRequeued ==
  (last.done /\ last.tx_err = [space |-> "SdkError", name |-> "ErrWrongSequence"])
    => /\ last.ret.tag = "Ok"
       /\ last.ret.op.op = "Call"
       /\ last.ret.op.call.message.tag = "SubmitTransaction"
       /\ last.ret.op.call.message.msgs = last.msgs

C8_Witness ==
  /\ last.done
  /\ last.tx_err = [space |-> "SdkError", name |-> "ErrWrongSequence"]
  /\ Len(last.msgs) = 2
  /\ Requested(last.io, "block")
  /\ last.ret.tag = "Ok"

\* C9: a transaction that fails with ErrRedundantTx is resolved to Noop
C9_RedundantIsSuccess ==
  (last.done /\ last.tx_err = [space |-> "ChannelError", name |-> "ErrRedundantTx"])
    => IsNoop(last.ret) /\ Resubmitted(last.ret.op) = <<>>

C9_Witness ==
  /\ last.done
  /\ last.tx_err = [space |-> "ChannelError", name |-> "ErrRedundantTx"]
  /\ IsNoop(last.ret)

\* the transaction errors the spec calls fatal for the message
IsFatalTxErr(e) ==
  \/ e.space = "CapabilityError"
  \/ e = [space |-> "IbcWasmError", name |-> "ErrInvalidChecksum"]
  \/ e = [space |-> "ClientError", name |-> "ErrClientNotFound"]

\* C10: an error returned by call(SubmitTransaction) has the fatal code
\* exactly when the transaction failed with one of these errors, and the
\* transient code -1 otherwise
C10_FatalCodes ==
  /\ (last.done /\ IsFatalTxErr(last.tx_err))
       => last.ret.tag = "Err" /\ last.ret.code = FATAL_JSONRPC_ERROR_CODE
  /\ (last.done /\ last.ret.tag = "Err" /\ ~IsFatalTxErr(last.tx_err))
       => last.ret.code = -1
  /\ FATAL_JSONRPC_ERROR_CODE # -1

C10_Witness ==
  /\ last.done
  /\ last.ret.tag = "Err"
  /\ last.ret.code = FATAL_JSONRPC_ERROR_CODE
  /\ last.tx_err = [space |-> "ClientError", name |-> "ErrClientNotFound"]

\* the simulation of the attempt failed with a status whose message has the
\* account-sequence-mismatch text
SimulationMismatch(calls) ==
  \E i \in DOMAIN calls :
    /\ calls[i].call = "simulate"
    /\ ~calls[i].ok
    /\ \E j \in DOMAIN calls[i].message : calls[i].message[j] = ACCOUNT_SEQUENCE_MISMATCH[1]

\* C11: an attempt whose simulation failed with an account-sequence-mismatch
\* status is classified AccountSequenceMismatch and resolved to
\* Ok(Call(SubmitTransaction(msgs))) with the very messages of the call
C11_SimulationMismatchRequeued ==
  (last.done /\ SimulationMismatch(last.io))
    => /\ last.res.tag = "Err"
       /\ last.res.err.kind = "AccountSequenceMismatch"
       /\ last.ret = RpcOk(call(cosmos_rewrap_msg(last.msgs)))

\* the requests that put a transaction on the chain, and the ones that
\* estimate or simulate it
IsSend(r) == r.call \in {"send", "broadcast_tx_sync"}
IsEstimation(r) == r.call \in {"estimate_gas", "simulate"}

\* in the requests of one attempt, every send comes after an estimation or
\* simulation that succeeded, and a failed one is the attempt's last request
SentAfterEstimation(calls) ==
  /\ \A i \in DOMAIN calls :
       IsSend(calls[i]) => \E j \in 1..(i - 1) : IsEstimation(calls[j]) /\ calls[j].ok
  /\ \A i \in DOMAIN calls :
       (IsEstimation(calls[i]) /\ ~calls[i].ok) => i = Len(calls)

\* C12: in every attempt, in flight or completed, the transaction is sent
\* only after its estimation or simulation succeeded; a failed estimation or
\* simulation ends the attempt with nothing sent
C12_SentOnlyAfterEstimation ==
  /\ \A s \in Subs : SentAfterEstimation(io[s])
  /\ last.done => SentAfterEstimation(last.io)

\* the inclusion queries of an attempt: the tx requests after the broadcast
InclusionPolls(calls) ==
  {i \in DOMAIN calls :
     calls[i].call = "tx" /\ \E j \in 1..(i - 1) : calls[j].call = "broadcast_tx_sync"}

\* C13: after the broadcast the inclusion is queried at most 6 times, each
\* query after the chain reached a block above the one the query before it
\* followed (so the query after k failed ones is at least k blocks up); the
\* attempt fails with an Inclusion error when none of the queries found the
\* transaction, and is Ok when one found it with code 0
C13_PolledAtMostSixTimes ==
  /\ \A s \in Subs : Cardinality(InclusionPolls(io[s])) <= 6
  /\ last.done => Cardinality(InclusionPolls(last.io)) <= 6
  /\ \A s \in Subs :
       pc[s] = "inclusion" => reached[s] >= target[s] /\ reached[s] >= polls[s]
  /\ \A s \in Subs : (pc[s] = "wait_height" /\ polls[s] > 0) => target[s] = reached[s] + 1
  /\ (last.done /\ last.res.tag = "Err" /\ last.res.err.kind = "Inclusion")
       => \A i \in InclusionPolls(last.io) : ~last.io[i].ok
  /\ (last.done /\ last.tx_err = NoTxErr
        /\ \E i \in InclusionPolls(last.io) : last.io[i].ok)
       => last.res = ResOk

\* the keys leased to the submissions in flight
Leased == {held[s] : s \in {t \in Subs : InFlight(t)}}

Produced ==
  /\ ran.done
  /\ IsCall(ran.op, "MakeChainEvent")
  /\ ran.ret.tag = "Ok"
  /\ ran.ret.op.op = "Data"

\* the kind of the full event built from a raw event
FullKind(raw) ==
  IF raw.spec = "IbcUnion" /\ raw.kind = "CreateClient" THEN "ClientCreated" ELSE raw.kind

ProducedV1 == Produced /\ ran.op.call.message.event.spec = "IbcV1"

\* the client an event is about on the chain that emitted it, and the
\* client at the other end
LocalClient(raw) ==
  IF raw.kind \in ClientKinds \cup ConnectionKinds
    THEN raw.client_id ELSE Connections[raw.connection_id].client_id
RemoteClient(raw) ==
  IF raw.kind \in ConnectionKinds
    THEN raw.counterparty_client_id ELSE Connections[raw.connection_id].counterparty.client_id

\* C16: client_id() of a produced ChainEvent is the client on the emitting
\* chain (for RecvPacket and WriteAcknowledgement the client of the
\* destination channel's connection, for the other packet events that of
\* the source channel's), and counterparty_client_id() is the client at the
\* other end, None exactly for CreateClient and UpdateClient
C16_ClientIdIsLocal ==
  ProducedV1 =>
    LET ce == ran.ret.op.data
        raw == ran.op.call.message.event
    IN
    /\ ChainEvent_client_id(ce) = LocalClient(raw)
    /\ ce.event.kind \in {"SendPacket", "AcknowledgePacket", "TimeoutPacket"}
         => ChainEvent_client_id(ce) = ce.event.packet.source_channel.connection.client_id
    /\ ce.event.kind \in {"RecvPacket", "WriteAcknowledgement"}
         => ChainEvent_client_id(ce) = ce.event.packet.destination_channel.connection.client_id
    /\ ChainEvent_counterparty_client_id(ce) =
         (IF ce.event.kind \in ClientKinds THEN <<>> ELSE <<RemoteClient(raw)>>)

\* C20: FetchBlocks of a height above the start height runs only when the
\* chain has finalized that height, i.e. after the WaitForHeight before it
\* in the Seq resolved; the Effect of a retry Seq([Defer(secs), Effect]) that
\* was queued at time 0 runs only when secs seconds have passed, i.e. after
\* its Defer resolved
C20_SeqInOrder ==
  /\ (ran.done /\ IsCall(ran.op, "FetchBlocks") /\ ran.op # root)
       => height >= ran.op.call.message.height.height
  /\ (ran.done /\ ran.op.op = "Effect" /\ root.op = "Seq")
       => /\ root.ops[1].op = "Defer"
          /\ now >= root.ops[1].secs
  /\ \A item \in BagToSet(queue) :
       item.op = "Seq" => ~IsCall(Head_of(item), "FetchBlocks") /\ Head_of(item).op # "Effect"

C20_Witness ==
  /\ ran.done
  /\ IsCall(ran.op, "FetchBlocks")
  /\ ran.op.call.message.height.height = StartHeight + 2
  /\ height = StartHeight + 2

(* C17: EthAbi-encoding a ConnectionEnd whose identifiers are a prefix
   followed by a number n succeeds, and yields the words state, clientId,
   counterpartyClientId, counterpartyConnectionId where state is 0, 1, 2, 3
   for Unspecified, Init, TryOpen, Open and each id is the number n of its
   identifier, 0 for an absent counterparty connection id. *)
RECURSIVE NumericSuffix(_)
NumericSuffix(id) ==
  IF id = <<>> \/ ~is_numeric(id[Len(id)]) THEN <<>>
  ELSE NumericSuffix(SubSeq(id, 1, Len(id) - 1)) \o <<id[Len(id)]>>

C17_EthAbiNumericSuffix ==
  result.fn = "encode" =>
    result.ret =
      Ok(<<State_as_i32(result.arg.state),
           DigitsValue(NumericSuffix(result.arg.client_id)),
           DigitsValue(NumericSuffix(result.arg.counterparty.client_id)),
           IF result.arg.counterparty.connection_id = None THEN 0
           ELSE DigitsValue(NumericSuffix(result.arg.counterparty.connection_id[1]))>>)

(* C18: converting a valid ConnectionEnd, Tx or SignedHeader into its
   protobuf message and that message back yields Ok of the value. *)
C18_ProtoRoundTrip ==
  (result.fn = "try_from" /\ result.arg \in Protos(value)) => result.ret = Ok(value)

C18_Witness ==
  /\ result.fn = "try_from"
  /\ result.arg \in Protos(value)
  /\ value.type = "ConnectionEnd"
  /\ value.counterparty.connection_id = None
  /\ value.versions # <<>>
  /\ result.ret.tag = "Ok"

(* C19: NearLightClient::verify_membership called with proof height h reads
   the consensus state stored at h + 1: it fails with
   ConsensusStateNotFound(h + 1) when none is stored there, whatever is
   stored at h, and with a proof that is valid for the root stored at h + 1
   (of the value committed under a well-formed path) it succeeds; it never
   succeeds without a consensus state at h + 1 whose root the proof is for. *)
StoredAt(h) ==
  IF h.revision = 0 /\ h.height \in 0..MaxNearHeight THEN consensus_states[h.height]
  ELSE <<>>
NextOf(h) == [h EXCEPT !.height = h.height + 1]
ProvesFor(a, root_) ==
  /\ a.key_path # <<>>
  /\ a.proof.root = root_
  /\ a.proof.account_id = client_state.ibc_account_id
  /\ a.proof.key = <<"commitments", a.key_path[Len(a.key_path)]>>
  /\ \/ a.value.tag = "Empty" /\ a.proof.value = <<>>
     \/ /\ a.value.tag = "Occupied"
        /\ a.key_path[2] = "connections/connection-2"
        /\ a.proof.value = <<a.value.value>>
     \/ /\ a.value.tag = "Occupied"
        /\ a.key_path[2] = "clients/08-wasm-5/clientState"
        /\ a.value.value.any
        /\ a.proof.value = <<[any |-> FALSE, payload |-> a.value.value.payload]>>

C19_VerifiesAtNextHeight ==
  (result.fn = "verify_membership" /\ result.arg.proof.parses) =>
    LET a == result.arg
        stored == StoredAt(NextOf(a.height))
    IN /\ stored = <<>> => result.ret = Err(<<"ConsensusStateNotFound", a.height.height + 1>>)
       /\ (stored # <<>> /\ ProvesFor(a, stored[1].chunk_prev_state_root))
            => result.ret = Ok(<<>>)
       /\ result.ret = Ok(<<>>)
            => (stored # <<>> /\ a.proof.root = stored[1].chunk_prev_state_root)

C19_Witness ==
  /\ result.fn = "verify_membership"
  /\ result.ret = Ok(<<>>)
  /\ result.arg.value.tag = "Occupied"
  /\ StoredAt(result.arg.height) # <<>>
  /\ StoredAt(result.arg.height)[1].chunk_prev_state_root
       # StoredAt(NextOf(result.arg.height))[1].chunk_prev_state_root

(* C21: the Effect the EVM submitter hands back to the queue is not carried
   out earlier than 6 seconds after an attempt that returned GasPriceTooHigh,
   and not earlier than 12 seconds after one that returned OutOfGas or
   EmptyRevert (the attempt returned at time 0, when its op was queued). *)
RetryAfter(res) == {evm_resolve(res, m).op : m \in FewBatches}

C21_DeferNotEarly ==
  (ran.done /\ ran.op.op = "Effect") =>
    /\ root \in RetryAfter(ResErr(GasPriceTooHigh(0, 1))) => now >= 6
    /\ root \in RetryAfter(ResErr(TxSubmitError("OutOfGas"))) => now >= 12
    /\ root \in RetryAfter(ResErr(TxSubmitError("EmptyRevert"))) => now >= 12

C21_Witness ==
  /\ ran.done
  /\ ran.op.op = "Effect"
  /\ root \in RetryAfter(ResErr(TxSubmitError("EmptyRevert")))
  /\ now = 12

(* C22: under any interleaving of client_type_of_checksum calls, a call
   returns no client type other than the one parsed from the wasm code of
   its checksum; a hit returns the cached value and makes no chain request;
   and the cache holds an entry only for a checksum whose code parses to a
   client type, that type. *)
ParsedType(checksum) ==
  LET named == value.code[checksum].client_type
  IN IF named \in {<<"Cometbls">>, <<"Tendermint">>} THEN named ELSE <<>>

C22_CacheConsistent ==
  /\ \A c \in Checksums :
       checksum_cache[c] # <<>> => checksum_cache[c] = ParsedType(c)
  /\ result.fn = "client_type_of_checksum" =>
       /\ (result.ret.tag = "Ok" /\ result.ret.v # <<>>)
            => result.ret.v = ParsedType(result.arg.checksum)
       /\ result.arg.hit =>
            /\ result.arg.requests = <<>>
            /\ result.ret = Ok(checksum_cache[result.arg.checksum])
            /\ checksum_cache[result.arg.checksum] # <<>>

\* a call hits while another call for the other checksum is in flight
C22_Witness ==
  /\ result.fn = "client_type_of_checksum"
  /\ result.arg.hit
  /\ \E p \in Lookups : lookups[p].pc = "code" /\ lookups[p].checksum # result.arg.checksum
  /\ \E c \in Checksums : checksum_cache[c] = <<>>

\* the indices of the tuples of a pass that name the input index i
TuplesOf(ready, i) == {k \in DOMAIN ready : \E j \in DOMAIN ready[k][1] : ready[k][1][j] = i}

\* every datagram of the op converts and the op is one the plugin selects
Submittable(op) ==
  /\ op.op = "Data"
  /\ op.data.chain_id = CHAIN_ID
  /\ IF op.data.tag = "IdentifiedIbcDatagram"
       THEN op.data.message.type_url # "/unknown"
       ELSE \A i \in DOMAIN op.data.message : op.data.message[i].type_url # "/unknown"

\* C23: a pass of the Cosmos transaction plugin over ops it can submit, and
\* every pass of the Cosmos event source, returns; a pass that returns for n
\* ops has optimize_further empty and exactly n ready tuples, the i-th being
\* ([i], op) for i = 0..n-1, so every input index occurs in exactly one tuple
C23_PassKeepsEveryOp ==
  result.fn = "run_pass" =>
    LET ops == result.arg.ops
        n == Len(ops)
        ret == result.ret
    IN /\ result.arg.plugin = "event-source" => ret.tag = "Ok"
       /\ (result.arg.plugin = "transaction" /\ \A i \in 1..n : Submittable(ops[i]))
            => ret.tag = "Ok"
       /\ ret.tag = "Ok" =>
            /\ ret.v.optimize_further = <<>>
            /\ Len(ret.v.ready) = n
            /\ \A i \in 1..n : ret.v.ready[i][1] = <<i - 1>>
            /\ \A i \in 0..(n - 1) : Cardinality(TuplesOf(ret.v.ready, i)) = 1
            /\ \A i \in 1..n :
                 IF result.arg.plugin = "transaction"
                   THEN /\ ret.v.ready[i][2].op = "Call"
                        /\ ret.v.ready[i][2].call.plugin = PLUGIN_NAME
                        /\ ret.v.ready[i][2].call.message.tag = "SubmitTransaction"
                        /\ Len(ret.v.ready[i][2].call.message.msgs) =
                             IF ops[i].data.tag = "IdentifiedIbcDatagram" THEN 1
                             ELSE Len(ops[i].data.message)
                   ELSE IF ops[i].op = "Call" /\ ops[i].call.chain_id = EVENT_CHAIN_ID
                     THEN ret.v.ready[i][2] =
                            call(PluginMessage(FetchBlocks(ops[i].call.start_height)))
                     ELSE ret.v.ready[i][2] = ops[i]

\* the transaction plugin has returned a pass over MaxOps ops that begin with
\* a batch and a single datagram
C23_Witness ==
  /\ result.fn = "run_pass"
  /\ result.arg.plugin = "transaction"
  /\ result.ret.tag = "Ok"
  /\ Len(result.arg.ops) = MaxOps
  /\ result.arg.ops[1].data.tag = "IdentifiedIbcDatagramBatch"
  /\ result.arg.ops[2].data.tag = "IdentifiedIbcDatagram"
  /\ Len(result.ret.v.ready) = MaxOps

\* what IbcHost shows of a host: its store and the height and time of the block
Visible(host) == [kv |-> host.kv, height |-> host.height, timestamp |-> host.timestamp]

RecvRuns == {h \in VmHosts : runs[h].at = "done" /\ runs[h].state.variant = "RecvPacket"}
NextSequenceRecv(host) == host.kv[NextSequenceRecvPath][1]
\* the packet is from the counterparty of the channel, is not past its
\* timeout, is proven and is acknowledged by the app
Receivable(host, packet, answers) ==
  /\ packet.source_channel = COUNTERPARTY_CHANNEL
  /\ ~timed_out(host, packet)
  /\ answers.valid
  /\ answers.acks # <<>>
  /\ answers.acks[1] # <<>>

AckRuns ==
  {h \in VmHosts : runs[h].at = "done" /\ runs[h].state.variant = "AcknowledgePacket"}

\* C27: no packet has more than one acknowledgement accepted: the accepted one
\* deletes the commitment, and an acknowledgement handed in after it is
\* rejected for the commitment it does not find
C27_AcknowledgedOnce ==
  /\ \A h \in VmHosts : \A s \in 1..MaxSequence : hosts[h].acknowledged[s] <= 1
  /\ \A h \in AckRuns :
       LET sequence == runs[h].state.sub.packet.sequence
       IN /\ runs[h].ret.tag = "Ok" => hosts[h].kv[CommitmentPath(sequence)] = None
          /\ runs[h].pre.acknowledged[sequence] = 1 =>
               /\ runs[h].ret.tag = "Err"
               /\ runs[h].ret.e[1] = "PacketCommitmentMismatch"

\* the acknowledgement of a packet is handed in a second time
C27_Witness ==
  /\ 1 \in AckRuns
  /\ runs[1].pre.acknowledged[runs[1].state.sub.packet.sequence] = 1
  /\ runs[1].ret.tag = "Err"
  /\ fed.answers = AllGood

\* the state of connection n on a host, "None" while there is none
ConnectionState(host, n) ==
  IF host.kv[ConnectionPath(n)] = None THEN "None" ELSE host.kv[ConnectionPath(n)][1].state
\* the changes of state along NONE, INIT, TRYOPEN, OPEN
ConnectionMoves ==
  {<<"None", "Init">>, <<"None", "Tryopen">>, <<"Init", "Tryopen">>, <<"Init", "Open">>,
   <<"Tryopen", "Open">>}

\* C28: the state of a connection end changes only forwards along NONE, INIT,
\* TRYOPEN, OPEN, never out of OPEN; an end in TRYOPEN or OPEN has the
\* connection id of its counterparty
C28_ConnectionForward ==
  /\ [][\A h \in VmHosts : \A n \in 0..MaxConnections :
          ConnectionState(hosts[h], n)' # ConnectionState(hosts[h], n)
            => <<ConnectionState(hosts[h], n), ConnectionState(hosts[h], n)'>>
                 \in ConnectionMoves]_vars
  /\ [](\A h \in VmHosts : \A n \in 0..MaxConnections :
          ConnectionState(hosts[h], n) \in {"Tryopen", "Open"}
            => hosts[h].kv[ConnectionPath(n)][1].counterparty.connection_id # None)

\* an open connection, opened from INIT, was handed a ConnectionOpenAck again
\* and is still open
C28_Witness ==
  /\ runs[1].at = "done"
  /\ runs[1].state.variant = "ConnectionOpenAck"
  /\ runs[1].ret = Err(<<"IncorrectConnectionState", "Open", "Init">>)
  /\ ConnectionState(hosts[1], 0) = "Open"
  /\ fed.answers.valid

RetryResults(submitter) ==
  IF submitter = "evm"
    THEN {ResNone, ResErr(GasPriceTooHigh(1, 2)), ResErr(TxSubmitError("OutOfGas")),
          ResErr(TxSubmitError("EmptyRevert"))}
    ELSE {ResNone}
           \cup {ResErr(BroadcastTxCommitError(k, NoTxErr, <<>>)) :
                   k \in {"AccountSequenceMismatch", "OutOfGas", "SimulateTx",
                          "QueryLatestHeight"}}

\* C30: a submission that ends in a retry hands back to the queue exactly the
\* list of messages it was called with, in the same order and with nothing
\* else in the op: the EVM submitter an Effect of the list, behind a Defer
\* unless no key was free, the Cosmos submitter a call of SubmitTransaction
C30_RetryKeepsMessages ==
  (result.fn \in {"send_transaction", "do_send_transaction"}
     /\ result.arg.res \in RetryResults(result.arg.submitter)) =>
    /\ result.ret.tag = "Ok"
    /\ Resubmitted(result.ret.op) = result.arg.msgs
    /\ IF result.arg.submitter = "evm"
         THEN LET e == IF result.ret.op.op = "Seq" THEN result.ret.op.ops[2]
                       ELSE result.ret.op
              IN /\ result.ret.op.op = "Seq" <=> result.arg.res # ResNone
                 /\ result.ret.op.op = "Seq" =>
                      /\ Len(result.ret.op.ops) = 2
                      /\ result.ret.op.ops[1].op = "Defer"
                 /\ e.op = "Effect"
                 /\ DOMAIN e.effect = {"tag", "chain_id", "message"}
                 /\ e.effect.chain_id = CHAIN_ID
         ELSE result.ret.op = call(cosmos_rewrap_msg(result.arg.msgs))

\* the EVM submitter has retried a list of one message after an empty revert
C30_Witness ==
  /\ result.fn = "send_transaction"
  /\ result.arg.res = ResErr(TxSubmitError("EmptyRevert"))
  /\ Len(result.arg.msgs) = 1
  /\ Resubmitted(result.ret.op) = result.arg.msgs

\* the heights of the FetchBlocks an op holds, the plugin's and the queue's
RECURSIVE FetchBlocksIn(_)
FetchBlocksIn(o) ==
  IF o.op = "Call"
    THEN IF IsCall(o, "FetchBlocks") THEN <<o.call.message.height.height>>
         ELSE IF "plugin" \notin DOMAIN o.call /\ o.call.tag = "FetchBlocks"
           THEN <<o.call.start_height.height>>
         ELSE <<>>
  ELSE IF o.op \in {"Seq", "Conc"}
    THEN IF o.ops = <<>> THEN <<>>
         ELSE FetchBlocksIn(Head(o.ops)) \o FetchBlocksIn([o EXCEPT !.ops = Tail(o.ops)])
  ELSE <<>>

\* the heights of the first pages an op fetches
RECURSIVE FirstPagesIn(_)
FirstPagesIn(o) ==
  IF o.op = "Call"
    THEN IF IsCall(o, "FetchTransactions") /\ o.call.message.page = 1
           THEN <<o.call.message.height.height>>
           ELSE <<>>
  ELSE IF o.op \in {"Seq", "Conc"}
    THEN IF o.ops = <<>> THEN <<>>
         ELSE FirstPagesIn(Head(o.ops)) \o FirstPagesIn([o EXCEPT !.ops = Tail(o.ops)])
  ELSE <<>>

\* the heights FetchBlocks is pending for, over the whole queue
PendingBlocks ==
  {<<item, k, i>> \in BagToSet(queue) \X (1..3) \X (1..3) :
     k <= queue[item] /\ i <= Len(FetchBlocksIn(item))}
PendingHeights ==
  {FetchBlocksIn(p[1])[p[3]] : p \in PendingBlocks}
FetchesBlocks == root.op = "Call"
StartedBlocks(h) ==
  /\ ran.done
  /\ IsCall(ran.op, "FetchBlocks")
  /\ ran.op.call.message.height.height = h

WaitThenFetch(h) ==
  seq(<<call(WaitForHeight(EVENT_CHAIN_ID, Height(1, h), TRUE)),
        call(PluginMessage(FetchBlocks(Height(1, h))))>>)

\* in every state one FetchBlocks is pending; a handler's return starts the
\* first page of a height only when the handler is FetchBlocks of that
\* height, and then once; the FetchBlocks of a height above the start is
\* behind the wait for that height to be finalized until the chain has
\* finalized it
C31_Pending ==
  FetchesBlocks =>
    /\ Cardinality(PendingBlocks) = 1
    /\ (ran.done /\ ran.ret.tag = "Ok") =>
         FirstPagesIn(ran.ret.op) =
           (IF IsCall(ran.op, "FetchBlocks")
              THEN <<ran.op.call.message.height.height>> ELSE <<>>)
    /\ \A h \in PendingHeights, item \in BagToSet(queue) :
         /\ h >= StartHeight
         /\ \/ FetchBlocksIn(item) = <<>>
            \/ item = root
            \/ /\ item = call(PluginMessage(FetchBlocks(Height(1, h))))
               /\ height >= h
            \/ item = WaitThenFetch(h)
            \/ item = conc(<<call(PluginMessage(FetchTransactions(Height(1, h - 1), 1))),
                              WaitThenFetch(h)>>)

\* a step leaves the pending height as it is, or FetchBlocks of the pending
\* height ran and the height after it is pending
C31_Step ==
  FetchesBlocks =>
    \/ PendingHeights' = PendingHeights
    \/ /\ PendingHeights' = {h + 1 : h \in PendingHeights}
       /\ ran'.done
       /\ \A h \in PendingHeights :
            ran'.op = call(PluginMessage(FetchBlocks(Height(1, h))))

(* C31: starting from FetchBlocks(h0), FetchTransactions(h, 1) is issued once
   for every height h >= h0, by FetchBlocks(h); the heights are started in
   increasing order, one by one, and FetchBlocks(h + 1) runs only when the
   chain has finalized h + 1; under fair scheduling on a chain that keeps
   finalising blocks, FetchBlocks of every height up to the chain's last
   block runs. *)
C31_EveryHeightOnce ==
  /\ []C31_Pending
  /\ [][C31_Step]_vars
  /\ FetchesBlocks => \A h \in StartHeight..MaxHeight : <>StartedBlocks(h)

C31_Witness ==
  /\ StartedBlocks(StartHeight + 1)
  /\ PendingHeights = {StartHeight + 2}
  /\ \E item \in BagToSet(queue) : IsCall(item, "FetchTransactions")
                                      /\ item.call.message.height.height = StartHeight

\* the pages of the FetchTransactions an op holds, and the hashes of the
\* transactions of its MakeChainEvents
RECURSIVE PagesIn(_)
PagesIn(o) ==
  IF o.op = "Call"
    THEN IF IsCall(o, "FetchTransactions") THEN <<o.call.message.page>> ELSE <<>>
  ELSE IF o.op \in {"Seq", "Conc"}
    THEN IF o.ops = <<>> THEN <<>>
         ELSE PagesIn(Head(o.ops)) \o PagesIn([o EXCEPT !.ops = Tail(o.ops)])
  ELSE <<>>
RECURSIVE HashesIn(_)
HashesIn(o) ==
  IF o.op = "Call"
    THEN IF IsCall(o, "MakeChainEvent") THEN <<o.call.message.tx_hash>> ELSE <<>>
  ELSE IF o.op \in {"Seq", "Conc"}
    THEN IF o.ops = <<>> THEN <<>>
         ELSE HashesIn(Head(o.ops)) \o HashesIn([o EXCEPT !.ops = Tail(o.ops)])
  ELSE <<>>

\* the pages pending in the queue, and how often the event of the
\* transaction with a hash has been emitted
PendingPages ==
  {<<item, k, i>> \in BagToSet(queue) \X (1..2) \X (1..2) :
     k <= queue[item] /\ i <= Len(PagesIn(item))}
Emitted(hash) ==
  LET n[items \in SUBSET BagToSet(queue)] ==
        IF items = {} THEN 0
        ELSE LET item == CHOOSE item \in items : TRUE
             IN queue[item] * Cardinality({i \in DOMAIN HashesIn(item) : HashesIn(item)[i] = hash})
                  + n[items \ {item}]
  IN n[BagToSet(queue)]
TotalCount == Len(blocks[StartHeight])
\* max(1, ceil(T / 10))
LastPage == IF TotalCount = 0 THEN 1 ELSE (TotalCount + PER_PAGE_LIMIT - 1) \div PER_PAGE_LIMIT

(* C32: FetchTransactions(height, page) of a block with T transactions
   returns a follow-up FetchTransactions(height, page + 1) if and only if
   page * 10 < T; at most one page is pending at a time and it is at most
   max(1, ceil(T / 10)); while page p is pending, the events of exactly the
   first (p - 1) * 10 transactions have been emitted, each once, and when no
   page is pending the event of every transaction has been emitted once. *)
C32_PagesOnce ==
  /\ (ran.done /\ IsCall(ran.op, "FetchTransactions") /\ ran.ret.tag = "Ok") =>
       PagesIn(ran.ret.op) =
         (IF ran.op.call.message.page * 10 < TotalCount
            THEN <<ran.op.call.message.page + 1>> ELSE <<>>)
  /\ Cardinality(PendingPages) <= 1
  /\ \A p \in PendingPages :
       LET page == PagesIn(p[1])[p[3]] IN
       /\ page \in 1..LastPage
       /\ \A i \in 1..TotalCount :
            Emitted(<<"H", i>>) = (IF i <= (page - 1) * 10 THEN 1 ELSE 0)
  /\ PendingPages = {} => \A i \in 1..TotalCount : Emitted(<<"H", i>>) = 1

C32_Witness ==
  /\ ran.done
  /\ IsCall(ran.op, "FetchTransactions")
  /\ ran.op.call.message.page = 3
  /\ ran.ret.tag = "Ok"
  /\ TotalCount = 21
  /\ PendingPages = {}
  /\ Emitted(<<"H", 21>>) = 1

(* C33: the ibc_version_id of a ChainEvent the event source produces is the
   IBC spec of the raw event it was built from (IbcUnion for an IBC-union
   CreateClient or ConnectionOpenInit, IbcV1 for an IBC v1 event), which is
   the IBC spec id its client_info was looked up with. *)
C33_VersionOfTheEvent ==
  Produced =>
    /\ ran.ret.op.data.ibc_version_id = ran.op.call.message.event.spec
    /\ ran.ret.op.data.ibc_version_id = ran.ret.op.data.client_info.ibc_spec_id

(* C34: an attempt that found no key free in the keyring made no request to
   the chain and holds no key, and the handler returns the submission as it
   was for another attempt, with no Defer before it: the EVM submitter
   Effect(Batch(msgs)), or Effect(Single(msg)) for one message, the Cosmos
   submitter Call(SubmitTransaction(msgs)). *)
C34_NoKeyRequeued ==
  (last.done /\ last.res.tag = "None") =>
    /\ last.io = <<>>
    /\ last.price = NoPrice
    /\ last.ret.tag = "Ok"
    /\ variant = "evm" =>
         /\ last.ret.op.op = "Effect"
         /\ last.ret.op.effect.chain_id = CHAIN_ID
         /\ last.ret.op.effect.message = last.msgs
         /\ last.ret.op.effect.tag = (IF Len(last.msgs) > 1 THEN "Batch" ELSE "Single")
    /\ variant = "cosmos" =>
         /\ last.ret.op.op = "Call"
         /\ last.ret.op.call.plugin = PLUGIN_NAME
         /\ last.ret.op.call.message = [tag |-> "SubmitTransaction", msgs |-> last.msgs]

C34_Witness ==
  /\ last.done
  /\ last.res.tag = "None"
  /\ variant = "cosmos"
  /\ Len(last.msgs) = 2
  /\ keyring = {}
  /\ \A s \in Subs : held[s] # NoKey \/ pc[s] = "idle"

\* the attempt ended with a tx query that found the transaction on chain,
\* and the error of the code it was included with (NoTxErr for code 0)
Included(calls) == calls # <<>> /\ calls[Len(calls)].call = "tx" /\ calls[Len(calls)].ok
IncludedWith(a) ==
  LET q == a.io[Len(a.io)] IN
  IF "broadcast_tx_sync" \in {a.io[i].call : i \in DOMAIN a.io} THEN a.tx_err
  ELSE IF q.message = <<>> THEN NoTxErr
  ELSE TxErr(q.message[1], q.message[2])
\* broadcast_tx_commit returned Ok: the closure's result is Ok and stands for
\* no error of the transaction
CommitOk(a) == a.res = ResOk /\ a.tx_err = NoTxErr

(* C35: broadcast_tx_commit returns Ok, and the submission is resolved to
   Noop without being redundant, only when a tx query found the transaction
   included with code 0; when the transaction was found included with a
   code above 0, broadcast_tx_commit returns Err(Tx(error)) with the error
   of that code. *)
C35_OkOnlyWithCodeZero ==
  (last.done /\ variant = "cosmos") =>
    /\ CommitOk(last) => Included(last.io) /\ IncludedWith(last) = NoTxErr
    /\ (Included(last.io) /\ IncludedWith(last) # NoTxErr) =>
         /\ last.tx_err = IncludedWith(last)
         /\ last.res = cosmos_closure(ResErr(BroadcastTxCommitError("Tx", last.tx_err, <<>>)))

\* the submission is in the inclusion loop of broadcast_tx_commit
Polling(s) == pc[s] \in {"wait_height", "inclusion"}
\* a failed inclusion query of s sends it back to wait for a block above
\* the one it had reached, which is above the target it had
C36_TargetRises ==
  \A s \in Subs :
    (pc[s] = "inclusion" /\ pc'[s] = "wait_height") =>
      /\ target'[s] = reached[s] + 1
      /\ target'[s] > target[s]
      /\ polls'[s] = polls[s] + 1
\* the loop makes a bounded number of inclusion queries and an attempt that
\* was in it ends with Ok, an error of the transaction, an Inclusion error,
\* or the error of a failed height query
C36_Bounded ==
  /\ \A s \in Subs : Polling(s) =>
       /\ polls[s] \in 0..(MAX_FAILED_POLLS + 1)
       /\ Cardinality(InclusionPolls(io[s])) = polls[s]
  /\ (last.done /\ variant = "cosmos" /\ InclusionPolls(last.io) # {}) =>
       /\ Cardinality(InclusionPolls(last.io)) <= MAX_FAILED_POLLS + 2
       /\ \/ last.res = ResOk
          \/ last.res.tag = "Err" /\ last.tx_err # NoTxErr
          \/ last.res.tag = "Err" /\ last.res.err.kind = "Inclusion"
          \/ /\ last.res.tag = "Err" /\ last.res.err.kind = "QueryLatestHeight"
             /\ \E i \in DOMAIN last.io : last.io[i].call = "block" /\ ~last.io[i].ok

(* C36: in the inclusion loop of broadcast_tx_commit every failed inclusion
   query raises the target height to the reached height + 1, above the
   target before; the number of inclusion queries of an attempt is bounded;
   and on a chain whose height keeps advancing, with the height queries
   answered, a submission that is in the loop leaves it (the model's chain
   ends at MaxHeight: a submission waiting for a block above it is exempt). *)
C36_PollingTerminates ==
  /\ []C36_Bounded
  /\ [][C36_TargetRises]_vars
  /\ \A s \in Subs : Polling(s) ~> (pc[s] = "idle" \/ target[s] > MaxHeight)

C36_Witness ==
  /\ last.done
  /\ last.res.tag = "Err"
  /\ last.res.err.kind = "Inclusion"
  /\ Cardinality(InclusionPolls(last.io)) = MAX_FAILED_POLLS + 2
  /\ height = MaxHeight

\* C37: IbcState::process never changes the kind of datagram in the middle
\* of a run: a run in process is in the variant of the datagram it was
\* handed, however often it was resumed; a step that returns Left hands
\* back the next sub-state and the action of the sub-state's step in the
\* variant it was called with, and a step that returns Right or an error
\* hands back the sub-state's result unchanged
C37_SameVariant ==
  \A h \in DOMAIN runs :
    runs[h].at = "process" => runs[h].state.variant = fed.state.variant
C37_Step ==
  \A h \in DOMAIN runs :
    (runs[h].at = "process" /\ runs'[h] # runs[h]) =>
      LET inner == IbcState_step(runs[h].state, runs[h].host, runs[h].resp) IN
      CASE inner.tag = "Left" ->
             /\ runs'[h].at = "process"
             /\ runs'[h].state = [variant |-> runs[h].state.variant, sub |-> inner.state]
             /\ runs'[h].actions = Append(runs[h].actions, inner.action)
        [] inner.tag = "Right" ->
             /\ runs'[h].at = "done"
             /\ runs'[h].ret = Ok(inner.response)
             /\ runs'[h].events = inner.events
        [] inner.tag = "Err" ->
             /\ runs'[h].at = "done"
             /\ runs'[h].ret = Err(inner.e)
C37_VariantKept == []C37_SameVariant /\ [][C37_Step]_vars
\* the second node has resumed the run of a ChannelOpenTry twice
C37_Witness ==
  /\ value.type = "vm"
  /\ runs[2].at = "process"
  /\ runs[2].state.variant = "ChannelOpenTry"
  /\ Len(runs[2].actions) = 2
  /\ runs[2].state.sub.at = "CallbackCalled"

\* C38: NearLightClient::update_state, over headers applied in any order:
\* the latest height of the client state is the highest height a consensus
\* state is stored at (the height of instantiation and those of the headers
\* applied), and the wrapper's latest_height.revision_height equals it; an
\* update never lowers it, makes it the larger of what it was and the height
\* of the header, stores the consensus state of the header at the height of
\* the header, also below the latest height, and leaves every other stored
\* consensus state in place
StoredHeights == {h \in DOMAIN consensus_states : consensus_states[h] # None}
C38_LatestIsHighest ==
  /\ client_state.latest_height \in StoredHeights
  /\ \A h \in StoredHeights : h <= client_state.latest_height
  /\ client_state.wasm_latest_height = near_height(client_state.latest_height)
C38_Update ==
  result'.fn = "update_state" =>
    LET applied == result'.arg IN
    /\ client_state'.latest_height >= client_state.latest_height
    /\ client_state'.latest_height =
         IF applied > client_state.latest_height THEN applied
         ELSE client_state.latest_height
    /\ consensus_states'[applied] # None
    /\ consensus_states'[applied][1].state.height = applied
    /\ StoredHeights \subseteq {h \in DOMAIN consensus_states' : consensus_states'[h] # None}
    /\ \A h \in StoredHeights \ {applied} : consensus_states'[h] = consensus_states[h]
C38_LatestHeightIsMax == []C38_LatestIsHighest /\ [][C38_Update]_vars
\* a header below the latest height was applied after a higher one: its
\* consensus state is stored and the latest height stays
C38_Witness ==
  /\ result.fn = "update_state"
  /\ result.arg < client_state.latest_height
  /\ result.arg > 0
  /\ consensus_states[result.arg] # None
  /\ consensus_states[result.arg][1].chunk_prev_state_root = "root-b"
  /\ consensus_states[0] # None

\* C39: parsing the string a QueryHeight is displayed as yields the
\* QueryHeight again, for Latest, Finalized and every Specific(h)
C39_RoundTrip ==
  result.fn = "from_str" => result.ret = Ok(value.q)


====
